---- MODULE Spec2Model ----
(***************************************************************************)
(* Model of WeChatArticleScraper (src/scraper.js, latest revision, lines   *)
(* 1-701): the proxy/session failover of scrapeArticle, the single-attempt *)
(* custom-proxy path of scrapeWithProxy, the page acquisition steps of one *)
(* attempt and the content-root selection of processHtmlContent.           *)
(*                                                                         *)
(* Every await of the source is one action: the awaited remote operation   *)
(* either resolves or rejects, and a rejection transfers control to the    *)
(* catch block of the enclosing function.  Timed waits (setTimeout) only   *)
(* resolve.  Variables marked "history" record what has happened; the code *)
(* never reads them.                                                       *)
(***************************************************************************)
EXTENDS Integers, Sequences, FiniteSets, TLC

VARIABLES
    proxyURL,       \* options.proxyURL ("" stands for null / not set)
    proxyRetries,   \* options.proxyRetries
    fn,             \* the function whose body is executing
    pc,             \* position inside that body
    proxyIndex,     \* scrapeArticle: loop variable of the proxy loop
    browser,        \* local `browser`: "null" or "open" (holds a session)
    retries,        \* local `retries` of the navigation loop
    i,              \* local `i` of the scroll loop
    error,          \* the exception being handled by the catch block
    lastError,      \* scrapeArticle: local `lastError`
    htmlContent,    \* local `htmlContent` (the captured markup)
    result,         \* local `result` of processHtmlContent
    outcome,        \* how the call ended: pending, returned or thrown
    sessions,       \* history: one entry per Puppeteer.connect call
    gotoCalls,      \* history: page.goto calls of the current attempt
    navPauses,      \* history: 5 s pauses of the current attempt
    gotoOk,         \* history: a page.goto of the current attempt resolved
    gotoTotal,      \* history: page.goto calls of the whole call
    backoffs,       \* history: 3 s backoff waits of the whole call
    producedAt,     \* history: attempts whose extraction produced a result
    trail,          \* history: waits and page calls of the current attempt
    stepTimers,     \* this.stepTimers: the entries, each with its writer
    timerReads,     \* history: entries endStep has read in the current attempt
    call,           \* a function applied on its own: its name and arguments
    ret             \* what that application has returned so far

vars == <<proxyURL, proxyRetries, fn, pc, proxyIndex, browser, retries, i,
          error, lastError, htmlContent, result, outcome, sessions,
          gotoCalls, navPauses, gotoOk, gotoTotal, trail,
                   stepTimers, timerReads, backoffs, producedAt,
          call, ret>>

(***************************************************************************)
(* Bounds of the model.                                                    *)
(***************************************************************************)
MaxProxies == 2
MaxElems == 2

(***************************************************************************)
(* Program constants.                                                      *)
(***************************************************************************)
NavRetries == 3
ScrollSteps == 5

DefaultProxyRetries == <<"CN", "HK", "SG">>

ProxyCodes == {"CN", "HK"}

ProxyLists ==
    UNION {[1..n -> ProxyCodes] : n \in 0..MaxProxies} \cup {DefaultProxyRetries}

ProxyURLs == {"", "http://proxy.example.com:8080"}

(***************************************************************************)
(* Page markup, as far as the content-root selectors see it: the elements  *)
(* of the document in document order, each with its id and its class.      *)
(***************************************************************************)
Elements == [id : {"js_content", "x"}, class : {"rich_media_content", "y"}]

Pages == UNION {[1..n -> Elements] : n \in 0..MaxElems}

NoPage == [captured |-> FALSE, doc |-> <<>>]

(***************************************************************************)
(* Errors are identified by the attempt and the step that raised them.     *)
(***************************************************************************)
NoError == [at |-> -1, step |-> "none"]

GenericError == [at |-> -1, step |-> "all-attempts-failed"]

Err(step) == [at |-> proxyIndex, step |-> step]

NoResult == [kind |-> "none", root |-> {}, by |-> ""]

Pending == [kind |-> "pending", at |-> -1, value |-> NoResult, error |-> NoError]

(***************************************************************************)
(* processHtmlContent: content-root selection.                             *)
(***************************************************************************)
Select(doc, selector) ==
    {k \in 1..Len(doc) :
        \/ selector = "#js_content" /\ doc[k].id = "js_content"
        \/ selector = ".rich_media_content" /\ doc[k].class = "rich_media_content"}

processHtmlContent_SecondaryFirst(doc) ==
    LET first == Select(doc, ".rich_media_content")
        articleContent == IF first = {} THEN Select(doc, "#js_content") ELSE first
    IN  IF articleContent = {}
        THEN [kind |-> "null", root |-> {}, by |-> ""]
        ELSE [kind |-> "record", root |-> articleContent,
              by |-> IF first = {} THEN "#js_content" ELSE ".rich_media_content"]

processHtmlContent(doc) ==
    LET first == Select(doc, "#js_content")
        articleContent == IF first = {} THEN Select(doc, ".rich_media_content") ELSE first
    IN  IF articleContent = {}
        THEN [kind |-> "null", root |-> {}, by |-> ""]
        ELSE [kind |-> "record", root |-> articleContent,
              by |-> IF first = {} THEN ".rich_media_content" ELSE "#js_content"]

(***************************************************************************)
(* Control transfer to the catch block of the executing function.  The     *)
(* locals of the try block go out of scope.                                *)
(***************************************************************************)
Raise(step) ==
    /\ error' = Err(step)
    /\ pc' = "catch"
    /\ htmlContent' = NoPage
    /\ result' = NoResult

CloseCalled ==
    [sessions EXCEPT ![Len(sessions)].closeCalls = @ + 1]

(***************************************************************************)
(* try { await browser.close() } catch (closeError) { logWarn }: whether   *)
(* the close resolves or rejects, only a log line differs.                 *)
(***************************************************************************)
CloseSwallowed ==
    \E ok \in BOOLEAN :
        IF ok THEN sessions' = CloseCalled ELSE sessions' = CloseCalled

(***************************************************************************)
(* No function is applied on its own while scrapeArticle runs.             *)
(***************************************************************************)
NoCall == [fn |-> "none"]

NoRet == [status |-> "none"]

Init ==
    /\ call = NoCall
    /\ ret = NoRet
    /\ proxyURL \in ProxyURLs
    /\ proxyRetries \in ProxyLists
    /\ fn = "scrapeArticle"
    /\ pc = "start"
    /\ proxyIndex = 0
    /\ browser = "null"
    /\ retries = 0
    /\ i = 0
    /\ error = NoError
    /\ lastError = NoError
    /\ htmlContent = NoPage
    /\ result = NoResult
    /\ outcome = Pending
    /\ sessions = <<>>
    /\ gotoCalls = 0
    /\ navPauses = 0
    /\ gotoOk = FALSE
    /\ gotoTotal = 0
    /\ backoffs = 0
    /\ producedAt = {}
    /\ trail = <<>>
    /\ stepTimers = {}
    /\ timerReads = {}

(***************************************************************************)
(* this.stepTimers.  An entry is kept with the attempt that wrote it (-1   *)
(* is the entry of scrapeArticle, before any attempt); endStep reads the   *)
(* entry of a name, if there is one, and deletes it.                       *)
(***************************************************************************)
\* A variant that keeps an entry that is already in the table.
startStep_KeepEntry(timers, stepName) ==
    IF \E t \in timers : t.name = stepName
    THEN timers
    ELSE timers \cup {[name |-> stepName, at |-> proxyIndex]}

startStep(timers, stepName) ==
    {t \in timers : t.name # stepName} \cup {[name |-> stepName, at |-> proxyIndex]}

endStep(timers, stepName) == {t \in timers : t.name # stepName}

\* What an endStep(stepName) made now reads.
endStepReads(timers, stepName) ==
    {[name |-> t.name, at |-> t.at, by |-> proxyIndex] :
        t \in {u \in timers : u.name = stepName}}

\* One entry of the trail of an attempt.
Did(op, arg) == [op |-> op, arg |-> arg]

(***************************************************************************)
(* scrapeArticle, entry: the custom-proxy branch or the proxy loop.        *)
(***************************************************************************)
Start_NoCustomBranch ==
    /\ fn = "scrapeArticle" /\ pc = "start"
    /\ fn' = fn
    /\ pc' = "loop"
    /\ lastError' = NoError
    /\ proxyIndex' = 0
    /\ browser' = "null"
    /\ UNCHANGED <<call, ret, proxyURL, proxyRetries, retries, i, error, htmlContent,
                   result, outcome, sessions, gotoCalls, navPauses, gotoOk,
                   gotoTotal, backoffs, producedAt>>
    /\ stepTimers' = endStep(stepTimers, "total") \cup {[name |-> "total", at |-> -1]}
    /\ UNCHANGED <<trail, timerReads>>

Start ==
    /\ fn = "scrapeArticle" /\ pc = "start"
    /\ IF proxyURL # ""
       THEN /\ fn' = "scrapeWithProxy"
            /\ pc' = "connect"
       ELSE /\ fn' = fn
            /\ pc' = "loop"
    /\ lastError' = NoError
    /\ proxyIndex' = 0
    /\ browser' = "null"
    /\ UNCHANGED <<call, ret, proxyURL, proxyRetries, retries, i, error, htmlContent,
                   result, outcome, sessions, gotoCalls, navPauses, gotoOk,
                   gotoTotal, backoffs, producedAt>>
    /\ stepTimers' = endStep(stepTimers, "total") \cup {[name |-> "total", at |-> -1]}
    /\ UNCHANGED <<trail, timerReads>>

\* A variant whose loop has no exit.
LoopTest_NoExit ==
    /\ fn = "scrapeArticle" /\ pc = "loop"
    /\ IF proxyIndex < Len(proxyRetries)
       THEN pc' = "connect"
       ELSE pc' = "loop"
    /\ browser' = "null"
    /\ gotoCalls' = 0
    /\ navPauses' = 0
    /\ gotoOk' = FALSE
    /\ UNCHANGED <<call, ret, proxyURL, proxyRetries, fn, proxyIndex, retries, i, error,
                   lastError, htmlContent, result, outcome, sessions,
                   gotoTotal, backoffs, producedAt>>
    /\ trail' = <<>>
    /\ timerReads' = {}
    /\ UNCHANGED stepTimers

LoopTest ==
    /\ fn = "scrapeArticle" /\ pc = "loop"
    /\ IF proxyIndex < Len(proxyRetries)
       THEN pc' = "connect"
       ELSE pc' = "fail"
    /\ browser' = "null"
    /\ gotoCalls' = 0
    /\ navPauses' = 0
    /\ gotoOk' = FALSE
    /\ UNCHANGED <<call, ret, proxyURL, proxyRetries, fn, proxyIndex, retries, i, error,
                   lastError, htmlContent, result, outcome, sessions,
                   gotoTotal, backoffs, producedAt>>
    /\ trail' = <<>>
    /\ timerReads' = {}
    /\ UNCHANGED stepTimers

Session(proxy, custom, ok) ==
    [proxy |-> proxy, custom |-> custom, index |-> proxyIndex,
     opened |-> ok, closeCalls |-> 0]

Connect ==
    /\ fn = "scrapeArticle" /\ pc = "connect"
    /\ \E ok \in BOOLEAN :
        /\ sessions' = Append(sessions,
                              Session(proxyRetries[proxyIndex + 1], FALSE, ok))
        /\ IF ok
           THEN /\ browser' = "open"
                /\ pc' = "newPage"
                /\ UNCHANGED <<error, htmlContent, result>>
           ELSE /\ browser' = browser
                /\ Raise("connect")
    /\ UNCHANGED <<call, ret, proxyURL, proxyRetries, fn, proxyIndex, retries, i,
                   lastError, outcome, gotoCalls, navPauses, gotoOk,
                   gotoTotal, backoffs, producedAt>>
    /\ IF browser' = "open"
       THEN /\ stepTimers' = endStep(stepTimers, "connect")
            /\ timerReads' = timerReads \cup
                                endStepReads(startStep(stepTimers, "connect"), "connect")
       ELSE /\ stepTimers' = startStep(stepTimers, "connect")
            /\ timerReads' = timerReads
    /\ UNCHANGED trail

ConnectCustom ==
    /\ fn = "scrapeWithProxy" /\ pc = "connect"
    /\ \E ok \in BOOLEAN :
        /\ sessions' = Append(sessions, Session(proxyURL, TRUE, ok))
        /\ IF ok
           THEN /\ browser' = "open"
                /\ pc' = "newPage"
                /\ UNCHANGED <<error, htmlContent, result>>
           ELSE /\ browser' = browser
                /\ Raise("connect")
    /\ UNCHANGED <<call, ret, proxyURL, proxyRetries, fn, proxyIndex, retries, i,
                   lastError, outcome, gotoCalls, navPauses, gotoOk,
                   gotoTotal, backoffs, producedAt>>
    /\ IF browser' = "open"
       THEN /\ stepTimers' = endStep(stepTimers, "connect")
            /\ timerReads' = timerReads \cup
                                endStepReads(startStep(stepTimers, "connect"), "connect")
       ELSE /\ stepTimers' = startStep(stepTimers, "connect")
            /\ timerReads' = timerReads
    /\ UNCHANGED trail

(***************************************************************************)
(* The page steps of one attempt.  The statements are the same in the try  *)
(* block of scrapeArticle and in the one of scrapeWithProxy.               *)
(***************************************************************************)
PageStep_BestEffort(from, to) ==
    /\ pc = from
    /\ pc' = to
    /\ \E ok \in BOOLEAN :
        IF ok THEN error' = error ELSE error' = Err(from)
    /\ UNCHANGED <<call, ret, proxyURL, proxyRetries, fn, proxyIndex, browser, i,
                   lastError, htmlContent, result, outcome, sessions, gotoCalls,
                   navPauses, gotoOk, gotoTotal, backoffs, producedAt>>

PageStep(from, to) ==
    /\ pc = from
    /\ \E ok \in BOOLEAN :
        IF ok
        THEN /\ pc' = to
             /\ UNCHANGED <<error, htmlContent, result>>
        ELSE Raise(from)
    /\ UNCHANGED <<call, ret, proxyURL, proxyRetries, fn, proxyIndex, browser, i,
                   lastError, outcome, sessions, gotoCalls, navPauses, gotoOk,
                   gotoTotal, backoffs, producedAt>>

Wait(from, to) ==
    /\ pc = from
    /\ pc' = to
    /\ UNCHANGED <<call, ret, proxyURL, proxyRetries, fn, proxyIndex, browser, retries,
                   error, lastError, htmlContent, result, outcome, sessions,
                   gotoCalls, gotoOk, gotoTotal, backoffs, producedAt>>

NewPage ==
    /\ PageStep("newPage", "evaluateOnNewDocument")
    /\ UNCHANGED <<retries, trail, stepTimers, timerReads>>

EvaluateOnNewDocument ==
    /\ PageStep("evaluateOnNewDocument", "setUserAgent")
    /\ UNCHANGED <<retries, trail, stepTimers, timerReads>>

SetUserAgent ==
    /\ PageStep("setUserAgent", "setExtraHTTPHeaders")
    /\ UNCHANGED <<retries, trail, stepTimers, timerReads>>

SetExtraHTTPHeaders ==
    /\ PageStep("setExtraHTTPHeaders", "setViewport")
    /\ UNCHANGED <<retries, trail, stepTimers, timerReads>>

SetViewport ==
    /\ PageStep("setViewport", "goto")
    /\ retries' = NavRetries
    /\ stepTimers' = IF pc' = "goto" THEN startStep(stepTimers, "navigate")
                     ELSE stepTimers
    /\ UNCHANGED <<trail, timerReads>>

(***************************************************************************)
(* The navigation retry loop: while (retries > 0) { try goto; break }      *)
(* catch { retries--; if (retries === 0) throw; wait 5 s }.                *)
(***************************************************************************)
Goto_PauseBeforeThrow ==
    /\ pc = "goto"
    /\ gotoCalls' = gotoCalls + 1
    /\ gotoTotal' = gotoTotal + 1
    /\ \E ok \in BOOLEAN :
        IF ok
        THEN /\ pc' = "settle"
             /\ gotoOk' = TRUE
             /\ UNCHANGED <<retries, error, htmlContent, result>>
        ELSE /\ retries' = retries - 1
             /\ gotoOk' = gotoOk
             /\ IF retries - 1 < 0
                THEN Raise("goto")
                ELSE /\ pc' = "navPause"
                     /\ UNCHANGED <<error, htmlContent, result>>
    /\ UNCHANGED <<call, ret, proxyURL, proxyRetries, fn, proxyIndex, browser, i,
                   lastError, outcome, sessions, navPauses, backoffs,
                   producedAt>>
    /\ IF pc' = "settle"
       THEN /\ stepTimers' = endStep(stepTimers, "navigate")
            /\ timerReads' = timerReads \cup endStepReads(stepTimers, "navigate")
       ELSE UNCHANGED <<stepTimers, timerReads>>
    /\ UNCHANGED trail

Goto ==
    /\ pc = "goto"
    /\ retries > 0
    /\ gotoCalls' = gotoCalls + 1
    /\ gotoTotal' = gotoTotal + 1
    /\ \E ok \in BOOLEAN :
        IF ok
        THEN /\ pc' = "settle"
             /\ gotoOk' = TRUE
             /\ UNCHANGED <<retries, error, htmlContent, result>>
        ELSE /\ retries' = retries - 1
             /\ gotoOk' = gotoOk
             /\ IF retries - 1 = 0
                THEN Raise("goto")
                ELSE /\ pc' = "navPause"
                     /\ UNCHANGED <<error, htmlContent, result>>
    /\ UNCHANGED <<call, ret, proxyURL, proxyRetries, fn, proxyIndex, browser, i,
                   lastError, outcome, sessions, navPauses, backoffs,
                   producedAt>>
    /\ IF pc' = "settle"
       THEN /\ stepTimers' = endStep(stepTimers, "navigate")
            /\ timerReads' = timerReads \cup endStepReads(stepTimers, "navigate")
       ELSE UNCHANGED <<stepTimers, timerReads>>
    /\ UNCHANGED trail

NavPause ==
    /\ Wait("navPause", "goto")
    /\ navPauses' = navPauses + 1
    /\ UNCHANGED <<i, trail, stepTimers, timerReads>>

(***************************************************************************)
(* Settle wait and the scroll sequence.                                    *)
(***************************************************************************)
Settle ==
    /\ Wait("settle", "scroll")
    /\ i' = 0
    /\ trail' = Append(trail, Did("wait", 3000))
    /\ stepTimers' = startStep(endStep(stepTimers, "wait-content"), "scroll")
    /\ timerReads' = timerReads \cup
                        endStepReads(startStep(stepTimers, "wait-content"),
                                     "wait-content")
    /\ UNCHANGED navPauses

\* A variant that scrolls by the loop index, not by its successor.
ScrollStep_FromZero ==
    /\ i < ScrollSteps
    /\ PageStep("scroll", "scrollPause")
    /\ trail' = Append(trail, Did("scrollTo", 1000 * i))
    /\ UNCHANGED <<retries, stepTimers, timerReads>>

ScrollStep ==
    /\ i < ScrollSteps
    /\ PageStep("scroll", "scrollPause")
    /\ trail' = Append(trail, Did("scrollTo", 1000 * (i + 1)))
    /\ UNCHANGED <<retries, stepTimers, timerReads>>

ScrollPause ==
    /\ Wait("scrollPause", IF i + 1 < ScrollSteps THEN "scroll" ELSE "scrollTop")
    /\ i' = i + 1
    /\ trail' = Append(trail, Did("wait", 1000))
    /\ UNCHANGED <<navPauses, stepTimers, timerReads>>

ScrollTop ==
    /\ PageStep("scrollTop", "topPause")
    /\ trail' = Append(trail, Did("scrollTo", 0))
    /\ UNCHANGED <<retries, stepTimers, timerReads>>

TopPause ==
    /\ Wait("topPause", "content")
    /\ trail' = Append(trail, Did("wait", 1000))
    /\ stepTimers' = endStep(stepTimers, "scroll")
    /\ timerReads' = timerReads \cup endStepReads(stepTimers, "scroll")
    /\ UNCHANGED <<i, navPauses>>

(***************************************************************************)
(* Capture of the markup, extraction, and the close of the success path.   *)
(***************************************************************************)
Content ==
    /\ pc = "content"
    /\ \/ \E doc \in Pages :
            /\ htmlContent' = [captured |-> TRUE, doc |-> doc]
            /\ pc' = "process"
            /\ UNCHANGED <<error, result>>
       \/ Raise("content")
    /\ UNCHANGED <<call, ret, proxyURL, proxyRetries, fn, proxyIndex, browser, retries, i,
                   lastError, outcome, sessions, gotoCalls, navPauses, gotoOk,
                   gotoTotal, backoffs, producedAt>>
    /\ trail' = Append(trail, Did("content", 0))
    /\ IF pc' = "process"
       THEN /\ stepTimers' = endStep(stepTimers, "get-content")
            /\ timerReads' = timerReads \cup
                                endStepReads(startStep(stepTimers, "get-content"),
                                             "get-content")
       ELSE /\ stepTimers' = startStep(stepTimers, "get-content")
            /\ timerReads' = timerReads

Process ==
    /\ pc = "process"
    /\ result' = processHtmlContent(htmlContent.doc)
    /\ producedAt' = producedAt \cup {proxyIndex}
    /\ pc' = "close"
    /\ UNCHANGED <<call, ret, proxyURL, proxyRetries, fn, proxyIndex, browser, retries, i,
                   error, lastError, htmlContent, outcome, sessions, gotoCalls,
                   navPauses, gotoOk, gotoTotal, backoffs>>
    /\ trail' = Append(trail, Did("process", 0))
    /\ stepTimers' = endStep(endStep(endStep(stepTimers, "process"),
                                     "extract-metadata"), "fix-images")
    /\ timerReads' = timerReads
           \cup endStepReads(startStep(stepTimers, "process"), "process")
           \cup endStepReads(startStep(stepTimers, "extract-metadata"),
                             "extract-metadata")
           \cup IF result'.kind = "record"
                THEN endStepReads(startStep(stepTimers, "fix-images"), "fix-images")
                ELSE {}

Close ==
    /\ pc = "close"
    /\ \E ok \in BOOLEAN :
        /\ sessions' = CloseCalled
        /\ IF ok
           THEN /\ outcome' = [kind |-> "returned", at |-> proxyIndex,
                               value |-> result, error |-> NoError]
                /\ pc' = "done"
                /\ UNCHANGED <<error, htmlContent, result>>
           ELSE /\ outcome' = outcome
                /\ Raise("close")
    /\ UNCHANGED <<call, ret, proxyURL, proxyRetries, fn, proxyIndex, browser, retries, i,
                   lastError, gotoCalls, navPauses, gotoOk, gotoTotal, backoffs,
                   producedAt>>
    /\ IF pc' = "done"
       THEN /\ stepTimers' = endStep(endStep(stepTimers, "close"), "total")
            /\ timerReads' = timerReads
                   \cup endStepReads(startStep(stepTimers, "close"), "close")
                   \cup endStepReads(stepTimers, "total")
       ELSE /\ stepTimers' = startStep(stepTimers, "close")
            /\ timerReads' = timerReads
    /\ UNCHANGED trail

(***************************************************************************)
(* scrapeArticle: the catch block of one proxy attempt, the backoff and    *)
(* the throw after the loop.  The values caught are the Error objects of   *)
(* the session provider; lines 362-367 only format them for the log.       *)
(***************************************************************************)
CatchFrame ==
    UNCHANGED <<call, ret, proxyURL, proxyRetries, fn, proxyIndex, browser, retries, i,
                error, htmlContent, result, outcome, sessions, gotoCalls,
                navPauses, gotoOk, gotoTotal, trail,
                   stepTimers, timerReads, backoffs, producedAt>>

\* A variant that closes whether or not a session was opened.
Catch_AlwaysClose ==
    /\ fn = "scrapeArticle" /\ pc = "catch"
    /\ lastError' = error
    /\ pc' = "catchClose"
    /\ CatchFrame

Catch_NoClose ==
    /\ fn = "scrapeArticle" /\ pc = "catch"
    /\ lastError' = error
    /\ pc' = "backoff"
    /\ CatchFrame

Catch_KeepFirstError ==
    /\ fn = "scrapeArticle" /\ pc = "catch"
    /\ lastError' = IF lastError = NoError THEN error ELSE lastError
    /\ pc' = IF browser = "open" THEN "catchClose" ELSE "backoff"
    /\ CatchFrame

Catch_NavigationFatal ==
    /\ fn = "scrapeArticle" /\ pc = "catch"
    /\ lastError' = error
    /\ pc' = IF error.step = "goto" THEN "fail"
             ELSE IF browser = "open" THEN "catchClose" ELSE "backoff"
    /\ CatchFrame

Catch ==
    /\ fn = "scrapeArticle" /\ pc = "catch"
    /\ lastError' = error
    /\ pc' = IF browser = "open" THEN "catchClose" ELSE "backoff"
    /\ CatchFrame

\* A variant whose catch block asks twice for the close.
CatchClose_Twice ==
    /\ fn = "scrapeArticle" /\ pc = "catchClose"
    /\ sessions' = [sessions EXCEPT ![Len(sessions)].closeCalls = @ + 2]
    /\ pc' = "backoff"
    /\ UNCHANGED <<call, ret, proxyURL, proxyRetries, fn, proxyIndex, browser, retries, i,
                   error, lastError, htmlContent, result, outcome, gotoCalls,
                   navPauses, gotoOk, gotoTotal, trail,
                   stepTimers, timerReads, backoffs, producedAt>>

CatchClose ==
    /\ fn = "scrapeArticle" /\ pc = "catchClose"
    /\ CloseSwallowed
    /\ pc' = "backoff"
    /\ UNCHANGED <<call, ret, proxyURL, proxyRetries, fn, proxyIndex, browser, retries, i,
                   error, lastError, htmlContent, result, outcome, gotoCalls,
                   navPauses, gotoOk, gotoTotal, trail,
                   stepTimers, timerReads, backoffs, producedAt>>

\* A variant that waits after every failure.
Backoff_Always ==
    /\ fn = "scrapeArticle" /\ pc = "backoff"
    /\ pc' = "backoffWait"
    /\ proxyIndex' = proxyIndex
    /\ UNCHANGED <<call, ret, proxyURL, proxyRetries, fn, browser, retries, i, error,
                   lastError, htmlContent, result, outcome, sessions, gotoCalls,
                   navPauses, gotoOk, gotoTotal, trail,
                   stepTimers, timerReads, backoffs, producedAt>>

Backoff ==
    /\ fn = "scrapeArticle" /\ pc = "backoff"
    /\ IF proxyIndex < Len(proxyRetries) - 1
       THEN /\ pc' = "backoffWait"
            /\ proxyIndex' = proxyIndex
       ELSE /\ pc' = "loop"
            /\ proxyIndex' = proxyIndex + 1
    /\ UNCHANGED <<call, ret, proxyURL, proxyRetries, fn, browser, retries, i, error,
                   lastError, htmlContent, result, outcome, sessions, gotoCalls,
                   navPauses, gotoOk, gotoTotal, trail,
                   stepTimers, timerReads, backoffs, producedAt>>

BackoffWait ==
    /\ fn = "scrapeArticle" /\ pc = "backoffWait"
    /\ backoffs' = backoffs + 1
    /\ proxyIndex' = proxyIndex + 1
    /\ pc' = "loop"
    /\ UNCHANGED <<call, ret, proxyURL, proxyRetries, fn, browser, retries, i, error,
                   lastError, htmlContent, result, outcome, sessions, gotoCalls,
                   navPauses, gotoOk, gotoTotal, trail, stepTimers, timerReads,
                   producedAt>>

\* A variant that throws lastError even when it is null.
Fail_ThrowsLastError ==
    /\ fn = "scrapeArticle" /\ pc = "fail"
    /\ outcome' = [kind |-> "thrown", at |-> -1, value |-> NoResult,
                   error |-> lastError]
    /\ pc' = "done"
    /\ UNCHANGED <<call, ret, proxyURL, proxyRetries, fn, proxyIndex, browser, retries, i,
                   error, lastError, htmlContent, result, sessions, gotoCalls,
                   navPauses, gotoOk, gotoTotal, backoffs, producedAt>>
    /\ stepTimers' = endStep(stepTimers, "total")
    /\ timerReads' = timerReads \cup endStepReads(stepTimers, "total")
    /\ UNCHANGED trail

Fail ==
    /\ fn = "scrapeArticle" /\ pc = "fail"
    /\ outcome' = [kind |-> "thrown", at |-> -1, value |-> NoResult,
                   error |-> IF lastError # NoError THEN lastError ELSE GenericError]
    /\ pc' = "done"
    /\ UNCHANGED <<call, ret, proxyURL, proxyRetries, fn, proxyIndex, browser, retries, i,
                   error, lastError, htmlContent, result, sessions, gotoCalls,
                   navPauses, gotoOk, gotoTotal, backoffs, producedAt>>
    /\ stepTimers' = endStep(stepTimers, "total")
    /\ timerReads' = timerReads \cup endStepReads(stepTimers, "total")
    /\ UNCHANGED trail

(***************************************************************************)
(* scrapeWithProxy: the catch block closes the session and rethrows.       *)
(***************************************************************************)
ProxyCatch ==
    /\ fn = "scrapeWithProxy" /\ pc = "catch"
    /\ pc' = IF browser = "open" THEN "catchClose" ELSE "rethrow"
    /\ UNCHANGED <<call, ret, proxyURL, proxyRetries, fn, proxyIndex, browser, retries, i,
                   error, lastError, htmlContent, result, outcome, sessions,
                   gotoCalls, navPauses, gotoOk, gotoTotal, trail,
                   stepTimers, timerReads, backoffs,
                   producedAt>>

ProxyCatchClose ==
    /\ fn = "scrapeWithProxy" /\ pc = "catchClose"
    /\ CloseSwallowed
    /\ pc' = "rethrow"
    /\ UNCHANGED <<call, ret, proxyURL, proxyRetries, fn, proxyIndex, browser, retries, i,
                   error, lastError, htmlContent, result, outcome, gotoCalls,
                   navPauses, gotoOk, gotoTotal, trail,
                   stepTimers, timerReads, backoffs, producedAt>>

Rethrow ==
    /\ fn = "scrapeWithProxy" /\ pc = "rethrow"
    /\ outcome' = [kind |-> "thrown", at |-> -1, value |-> NoResult,
                   error |-> error]
    /\ pc' = "done"
    /\ UNCHANGED <<call, ret, proxyURL, proxyRetries, fn, proxyIndex, browser, retries, i,
                   error, lastError, htmlContent, result, sessions, gotoCalls,
                   navPauses, gotoOk, gotoTotal, trail,
                   stepTimers, timerReads, backoffs, producedAt>>

Next ==
    \/ Start
    \/ LoopTest
    \/ Connect
    \/ ConnectCustom
    \/ NewPage
    \/ EvaluateOnNewDocument
    \/ SetUserAgent
    \/ SetExtraHTTPHeaders
    \/ SetViewport
    \/ Goto
    \/ NavPause
    \/ Settle
    \/ ScrollStep
    \/ ScrollPause
    \/ ScrollTop
    \/ TopPause
    \/ Content
    \/ Process
    \/ Close
    \/ Catch
    \/ CatchClose
    \/ Backoff
    \/ BackoffWait
    \/ Fail
    \/ ProxyCatch
    \/ ProxyCatchClose
    \/ Rethrow

Spec == Init /\ [][Next]_vars

(***************************************************************************)
(* Vocabulary of the properties.                                           *)
(***************************************************************************)
ListPath == fn = "scrapeArticle"

CustomPath == fn = "scrapeWithProxy"

Done == pc = "done"

N == Len(proxyRetries)

LastSession == sessions[Len(sessions)]

\* Positions at which no attempt is in progress: the attempt's control has
\* reached the backoff, the loop head, the final throw or the caller.
BetweenAttempts == {"loop", "connect", "backoff", "backoffWait", "fail", "rethrow", "done"}

\* Positions of the catch path of an attempt and of what follows it.
AfterFailure == {"catch", "catchClose", "backoff", "backoffWait", "rethrow", "done"}

\* The steps of section 4.2 other than navigation that the claim C9 calls
\* best-effort.
BestEffortSteps == {"evaluateOnNewDocument", "setUserAgent", "setExtraHTTPHeaders",
                    "setViewport", "scroll", "scrollTop"}

\* C1: on the proxy-list path the candidates are attempted strictly in list
\* order (the k-th session is opened for the k-th candidate, after all earlier
\* ones), and once an attempt has succeeded (its extraction produced the
\* result) no session is opened for a later candidate.
C1_OrderedStopAtFirstSuccess ==
    ListPath =>
        /\ \A k \in 1..Len(sessions) :
              /\ ~sessions[k].custom
              /\ sessions[k].index = k - 1
              /\ k <= N
              /\ sessions[k].proxy = proxyRetries[k]
        /\ \A k \in 1..Len(sessions) :
              \A a \in producedAt : sessions[k].index <= a

\* The ordering half of C1 alone.
C1_OrderOnly ==
    ListPath =>
        \A k \in 1..Len(sessions) :
              /\ ~sessions[k].custom
              /\ sessions[k].index = k - 1
              /\ k <= N
              /\ sessions[k].proxy = proxyRetries[k]

C3_OfficialFirstCustomFallback ==
    \A k \in 1..Len(sessions) :
        sessions[k].custom =>
            /\ k = N + 1
            /\ \A j \in 1..N : ~sessions[j].custom /\ sessions[j].proxy = proxyRetries[j]

\* C4: a session that was opened has had close invoked on it by the time its
\* attempt's control returns: before the next candidate's connect, before the
\* call returns a record or null, and before it throws.
C4_SessionClosedBeforeAttemptEnds ==
    \A k \in 1..Len(sessions) :
        sessions[k].opened /\ sessions[k].closeCalls = 0 =>
            /\ k = Len(sessions)
            /\ pc \notin BetweenAttempts

C4_Witness ==
    /\ ListPath
    /\ Done
    /\ Len(sessions) = 2
    /\ sessions[1].opened /\ sessions[1].closeCalls = 1
    /\ sessions[2].opened /\ sessions[2].closeCalls = 1
    /\ lastError.step = "goto"
    /\ outcome.kind = "returned"
    /\ outcome.value.kind = "null"

\* C5: a failure of Session.close never changes the outcome: when an attempt's
\* navigation and extraction succeeded the call returns that attempt's result
\* even if the close fails, and the error thrown by a failed call is never a
\* close error.
C5_CloseFailureNeverChangesOutcome ==
    /\ Done /\ producedAt # {} =>
          /\ outcome.kind = "returned"
          /\ \A a \in producedAt : outcome.at <= a
    /\ Done /\ outcome.kind = "thrown" => outcome.error.step # "close"

\* C6: when every candidate of a non-empty proxyRetries fails, the error
\* thrown is the one raised by the attempt on the last candidate, after
\* exactly one attempt per candidate.
C6_ThrowsLastCandidateError ==
    ListPath /\ Done /\ outcome.kind = "thrown" /\ N > 0 =>
        /\ outcome.error = error
        /\ outcome.error.at = N - 1
        /\ outcome.error # GenericError
        /\ Len(sessions) = N
        /\ \A k \in 1..N : sessions[k].index = k - 1

C6_Witness ==
    /\ ListPath
    /\ Done
    /\ N = 3
    /\ outcome.kind = "thrown"
    /\ outcome.error = [at |-> 2, step |-> "goto"]
    /\ ~sessions[1].opened

\* C7: within one attempt page.goto is invoked at most 3 times, only after the
\* previous invocation failed and a 5-second pause elapsed, never after a
\* successful one, and the failure of the third invocation is propagated with
\* no pause after it.
C7_NavigationRetry ==
    /\ gotoCalls <= 3
    /\ pc = "goto" => ~gotoOk /\ navPauses = gotoCalls /\ gotoCalls < 3
    /\ pc = "navPause" => ~gotoOk /\ navPauses = gotoCalls - 1 /\ gotoCalls < 3
    /\ gotoOk => navPauses = gotoCalls - 1
    /\ pc \in AfterFailure /\ error = Err("goto") =>
          gotoCalls = 3 /\ navPauses = 2 /\ ~gotoOk

C7_Witness ==
    /\ pc = "catch"
    /\ error = Err("goto")
    /\ gotoCalls = 3
    /\ navPauses = 2

\* C8: on the proxy-list path the exhaustion of the 3 navigation tries fails
\* only that attempt: its session has had close invoked, the next candidate
\* starts with no navigation try spent, the call fails on a navigation error
\* only when it is the last candidate's, and over N candidates at most 3*N
\* page.goto calls are made and at most N sessions opened.
C8_NavExhaustionFailsOnlyAttempt ==
    ListPath =>
        /\ gotoTotal <= 3 * N
        /\ Len(sessions) <= N
        /\ pc = "connect" => gotoCalls = 0
        /\ pc = "goto" /\ gotoCalls = 0 => retries = 3
        /\ pc = "fail" => proxyIndex = N
        /\ pc \in {"backoff", "backoffWait"} /\ error.step = "goto" =>
              LastSession.opened /\ LastSession.closeCalls = 1
        /\ Done /\ outcome.kind = "thrown" /\ outcome.error.step = "goto" =>
              outcome.error.at = N - 1

C8_Witness ==
    /\ ListPath
    /\ Done
    /\ N = 3
    /\ gotoTotal = 9
    /\ Len(sessions) = 3
    /\ outcome.kind = "thrown"

\* C9 as stated: within an attempt only the navigation failure after its
\* retries is fatal; a failure of page set-up (fingerprint tweak, user agent,
\* headers, viewport) or of a scroll evaluation never brings the attempt to
\* its catch block.
C9_OnlyNavigationFatal ==
    pc = "catch" => error.step \notin BestEffortSteps

\* C9 as amended: a rejected page step of any kind is fatal to the attempt,
\* as a navigation failure after its retries is: once a step of the current
\* attempt has raised, control is on the attempt's failure path, no markup is
\* captured, no result is produced and the attempt does not return.
C9_AnyPageStepFailureFatal ==
    /\ error # NoError /\ error.at = proxyIndex =>
          /\ pc \in AfterFailure \cup {"loop", "fail"}
          /\ htmlContent = NoPage
          /\ result = NoResult
          /\ outcome.kind # "returned"
    /\ outcome.kind = "returned" /\ error # NoError => error.at < outcome.at

C9_Witness ==
    /\ ListPath
    /\ pc = "backoff"
    /\ error.step \in BestEffortSteps
    /\ error.at = proxyIndex
    /\ LastSession.closeCalls = 1
    /\ gotoCalls = 0

\* C10: the content root is what the primary selector #js_content matches;
\* only when it matches nothing, what .rich_media_content matches; when
\* neither matches the result is null, and extraction never throws.
C10_ContentRootSelection ==
    /\ error.step # "process"
    /\ result.kind # "none" =>
          LET doc == htmlContent.doc
              primary == {k \in 1..Len(doc) : doc[k].id = "js_content"}
              secondary == {k \in 1..Len(doc) : doc[k].class = "rich_media_content"}
          IN  /\ htmlContent.captured
              /\ primary # {} => result.kind = "record" /\ result.root = primary
              /\ primary = {} /\ secondary # {} =>
                    result.kind = "record" /\ result.root = secondary
              /\ primary = {} /\ secondary = {} => result.kind = "null"

C10_Witness ==
    /\ pc = "close"
    /\ Len(htmlContent.doc) = 2
    /\ htmlContent.doc[1].class = "rich_media_content"
    /\ htmlContent.doc[1].id # "js_content"
    /\ htmlContent.doc[2].id = "js_content"
    /\ result.kind = "record"
    /\ result.root = {2}

(***************************************************************************)
(* src/mcp-server.js, the call_tool handler.  A reply is the isError flag  *)
(* and the text of its single content item; a text is the sequence of its  *)
(* characters, the Chinese ones written by their pinyin names, and the     *)
(* message of a caught error is one token naming the step that raised it.  *)
(*   ErrorLabel   "zhua qu yi chang"  : scrapeArticle threw                *)
(*   FailureText  "zhua qu shi bai: wei neng ti qu wen zhang nei rong"     *)
(***************************************************************************)
ErrorLabel == <<"zhua", "qu", "yi", "chang", ":", " ">>

FailureText ==
    <<"zhua", "qu", "shi", "bai", ":", " ",
      "wei", "neng", "ti", "qu", "wen", "zhang", "nei", "rong">>

MissingKeyText == <<"cuo", "wu", ":", " ", "qing", "she", "zhi", " ", "SCRAPELESS_API_KEY">>

UnknownToolLabel == <<"wei", "zhi", "gong", "ju", ":", " ">>

Message(e) == <<e.step>>

CallTool(name, apiKey, o) ==
    IF name # "scrape_wechat_article"
    THEN [isError |-> TRUE, text |-> UnknownToolLabel \o <<name>>]
    ELSE IF ~apiKey
    THEN [isError |-> TRUE, text |-> MissingKeyText]
    ELSE IF o.kind = "thrown"
    THEN [isError |-> TRUE, text |-> ErrorLabel \o Message(o.error)]
    ELSE IF o.value.kind = "null"
    THEN [isError |-> TRUE, text |-> FailureText]
    ELSE [isError |-> FALSE, text |-> <<"json", o.value>>]

\* The reply to scrape_wechat_article with an API key set, once scrapeArticle
\* has ended.
Reply == CallTool("scrape_wechat_article", TRUE, outcome)

\* C11: a null extraction is kept apart from a thrown error end to end: once
\* extraction has yielded null, the session is closed and scrapeArticle
\* returns null from that same attempt, without throwing and without a
\* session for a later candidate, and the tool boundary answers with the
\* extraction-failure envelope, whose text is not the text of any envelope
\* for a thrown error.
C11_NullExtractionDistinguishable ==
    [][pc = "close" /\ result.kind = "null" =>
          /\ pc' = "done"
          /\ outcome'.kind = "returned"
          /\ outcome'.value.kind = "null"
          /\ outcome'.at = proxyIndex
          /\ sessions'[Len(sessions')].closeCalls = 1
          /\ CallTool("scrape_wechat_article", TRUE, outcome') =
                [isError |-> TRUE, text |-> FailureText]
          /\ \A step \in {"connect", "goto", "close", "content"} :
                CallTool("scrape_wechat_article", TRUE, outcome').text #
                    ErrorLabel \o <<step>>]_vars

\* The part of C11 that holds: whenever scrapeArticle has ended, the reply
\* for a returned null is the extraction-failure envelope and the reply for
\* a thrown error is a different envelope.
C11_EnvelopesDiffer ==
    Done =>
        /\ outcome.kind = "returned" /\ outcome.value.kind = "null" =>
              Reply = [isError |-> TRUE, text |-> FailureText]
        /\ outcome.kind = "thrown" =>
              Reply.isError /\ Reply.text # FailureText

(***************************************************************************)
(* Functions applied on their own.  While one of them is applied, no       *)
(* scrapeArticle call is in progress: its variables stay as ScrapeIdle     *)
(* leaves them.  `call` holds the function and its arguments, `ret` what   *)
(* it returned.                                                            *)
(***************************************************************************)
ScrapeVars ==
    <<proxyURL, proxyRetries, fn, pc, proxyIndex, browser, retries, i,
      error, lastError, htmlContent, result, outcome, sessions,
      gotoCalls, navPauses, gotoOk, gotoTotal, trail,
                   stepTimers, timerReads, backoffs, producedAt>>

ScrapeIdle ==
    /\ proxyURL = ""
    /\ proxyRetries = <<>>
    /\ fn = "none"
    /\ pc = "idle"
    /\ proxyIndex = 0
    /\ browser = "null"
    /\ retries = 0
    /\ i = 0
    /\ error = NoError
    /\ lastError = NoError
    /\ htmlContent = NoPage
    /\ result = NoResult
    /\ outcome = Pending
    /\ sessions = <<>>
    /\ gotoCalls = 0
    /\ navPauses = 0
    /\ gotoOk = FALSE
    /\ gotoTotal = 0
    /\ backoffs = 0
    /\ producedAt = {}
    /\ trail = <<>>
    /\ stepTimers = {}
    /\ timerReads = {}

Returned(value) == [status |-> "returned", value |-> value]

Includes(list, x) == \E k \in 1..Len(list) : list[k] = x

(***************************************************************************)
(* processHtmlContent, lines 421-443: the record and its data object.      *)
(* articleContent.html() and turndown(html) are total on a non-empty       *)
(* selection; their values are kept symbolic.                              *)
(***************************************************************************)
MaxFormats == 2

FormatNames == {"html", "markdown", "text"}

FormatLists == UNION {[1..n -> FormatNames] : n \in 0..MaxFormats}

EmptyObject == [k \in {} |-> ""]

Html(articleContent) == [htmlOf |-> articleContent]

Turndown(html) == [markdownOf |-> html]

ConvertFormats_AlwaysHtml(articleContent, formats) ==
    LET d0 == EmptyObject
        d1 == d0 @@ ("html" :> Html(articleContent))
        d2 == IF Includes(formats, "markdown")
              THEN ("markdown" :> Turndown(Html(articleContent))) @@ d1
              ELSE d1
    IN  d2

ConvertFormats(articleContent, formats) ==
    LET d0 == EmptyObject
        d1 == IF Includes(formats, "html")
              THEN ("html" :> Html(articleContent)) @@ d0
              ELSE d0
        d2 == IF Includes(formats, "markdown")
              THEN ("markdown" :> Turndown(Html(articleContent))) @@ d1
              ELSE d1
    IN  d2

processHtmlContentRecord(doc, formats) ==
    LET selected == processHtmlContent(doc)
    IN  IF selected.kind = "null"
        THEN [kind |-> "null"]
        ELSE [kind |-> "record", status |-> "completed", root |-> selected.root,
              data |-> ConvertFormats(selected.root, formats)]

InitFormats ==
    /\ call \in [fn : {"processHtmlContent"}, doc : Pages, formats : FormatLists]
    /\ ret = NoRet
    /\ ScrapeIdle

ApplyProcessHtmlContent ==
    /\ call.fn = "processHtmlContent"
    /\ ret = NoRet
    /\ ret' = Returned(processHtmlContentRecord(call.doc, call.formats))
    /\ UNCHANGED <<call, ScrapeVars>>

SpecFormats == InitFormats /\ [][ApplyProcessHtmlContent]_vars

\* C12: in every non-null record of processHtmlContent, data.html is present
\* exactly when "html" is among the formats asked for, data.markdown exactly
\* when "markdown" is, and data has no other key; an empty formats list
\* gives the empty object.
C12_FormatGating ==
    call.fn = "processHtmlContent" /\ ret.status = "returned"
        /\ ret.value.kind = "record" =>
        LET data == ret.value.data
            asked(f) == \E k \in 1..Len(call.formats) : call.formats[k] = f
        IN  /\ ("html" \in DOMAIN data) <=> asked("html")
            /\ ("markdown" \in DOMAIN data) <=> asked("markdown")
            /\ DOMAIN data \subseteq {"html", "markdown"}
            /\ call.formats = <<>> => DOMAIN data = {}

C12_Witness ==
    /\ call.fn = "processHtmlContent"
    /\ ret.status = "returned"
    /\ ret.value.kind = "record"
    /\ call.formats = <<"text", "markdown">>
    /\ DOMAIN ret.value.data = {"markdown"}

(***************************************************************************)
(* JavaScript values as far as the extraction code tells them apart: a     *)
(* string is the sequence of its characters (or of longer tokens where the *)
(* code only looks at whole tokens), undefined is what attr() gives for a  *)
(* missing attribute.  a || b is b unless a is truthy.                     *)
(***************************************************************************)
Str(chars) == [type |-> "string", chars |-> chars]

Undefined == [type |-> "undefined", chars |-> <<>>]

Null == [type |-> "null", chars |-> <<"n", "u", "l", "l">>]

\* A number, with the characters String(n) gives.
Number(chars) == [type |-> "number", chars |-> chars]

Truthy(v) ==
    \/ v.type = "string" /\ v.chars # <<>>
    \/ v.type = "number" /\ v.chars # <<"0">>

\* A variant that always takes the second operand.
Or_Second(a, b) == b

Or(a, b) == IF Truthy(a) THEN a ELSE b

Min(S) == CHOOSE x \in S : \A y \in S : x <= y

(***************************************************************************)
(* fixLazyImages.  An image is the sequence of its attributes in attribute *)
(* order, each a name and a value; the content root is the sequence of its *)
(* img descendants in document order.  Names and values are sequences of   *)
(* tokens: the prefix "data-" of a name, the prefix "http" of a value and  *)
(* the placeholder marker "data:image/svg+xml" are one token each.         *)
(***************************************************************************)
MaxAttrs == 3

Marker == "data:image/svg+xml"

AttrNames ==
    {<<"src">>, <<"alt">>, <<"data-", "src">>, <<"data-", "original">>,
     <<"data-", "lazy-src">>, <<"data-", "url">>, <<"data-", "w">>}

AttrValues ==
    {<<>>, <<"http", "://a/1.png">>, <<"http", "://a/?", Marker>>, <<Marker, ",<svg/>">>}

Attrs == [name : AttrNames, value : AttrValues]

ImagesOf(n) ==
    UNION {{img \in [1..m -> Attrs] :
               \A j, k \in 1..m : j # k => img[j].name # img[k].name} : m \in 0..n}

Roots ==
    {<<>>} \cup {<<img>> : img \in ImagesOf(MaxAttrs)}
           \cup {<<a, b>> : a \in ImagesOf(1), b \in ImagesOf(1)}

StrIncludes(chars, token) == \E k \in 1..Len(chars) : chars[k] = token

StartsWith(chars, token) == Len(chars) > 0 /\ chars[1] = token

GetAttr(img, name) ==
    IF \E k \in 1..Len(img) : img[k].name = name
    THEN Str(img[CHOOSE k \in 1..Len(img) : img[k].name = name].value)
    ELSE Undefined

SetAttr(img, name, value) ==
    IF \E k \in 1..Len(img) : img[k].name = name
    THEN [k \in 1..Len(img) |->
             IF img[k].name = name THEN [name |-> name, value |-> value] ELSE img[k]]
    ELSE Append(img, [name |-> name, value |-> value])

\* A variant that clears the lazy attribute it has adopted.
fixLazyImage_ConsumeLazy(img) ==
    LET src == Or(GetAttr(img, <<"src">>), Str(<<>>))
        realSrc == Or(Or(GetAttr(img, <<"data-", "src">>),
                         GetAttr(img, <<"data-", "original">>)),
                      GetAttr(img, <<"data-", "lazy-src">>))
        taken == {k \in 1..Len(img) : Truthy(Str(img[k].value))
                     /\ img[k].name \in {<<"data-", "src">>, <<"data-", "original">>,
                                         <<"data-", "lazy-src">>}}
    IN  IF StrIncludes(src.chars, Marker) /\ Truthy(realSrc)
        THEN SetAttr(SetAttr(img, <<"src">>, realSrc.chars), img[Min(taken)].name, <<>>)
        ELSE img

\* A variant that prefers data-original to data-src.
fixLazyImage_OriginalFirst(img) ==
    LET src == Or(GetAttr(img, <<"src">>), Str(<<>>))
        realSrc == Or(Or(GetAttr(img, <<"data-", "original">>),
                         GetAttr(img, <<"data-", "src">>)),
                      GetAttr(img, <<"data-", "lazy-src">>))
        hits == {k \in 1..Len(img) :
                    StartsWith(img[k].name, "data-") /\ StartsWith(img[k].value, "http")}
    IN  IF ~StrIncludes(src.chars, Marker)
        THEN img
        ELSE IF Truthy(realSrc)
        THEN SetAttr(img, <<"src">>, realSrc.chars)
        ELSE IF hits = {}
        THEN img
        ELSE SetAttr(img, <<"src">>, img[Min(hits)].value)

\* The body of images.each for one img element.
fixLazyImage(img) ==
    LET src == Or(GetAttr(img, <<"src">>), Str(<<>>))
        realSrc == Or(Or(GetAttr(img, <<"data-", "src">>),
                         GetAttr(img, <<"data-", "original">>)),
                      GetAttr(img, <<"data-", "lazy-src">>))
        hits == {k \in 1..Len(img) :
                    StartsWith(img[k].name, "data-") /\ StartsWith(img[k].value, "http")}
    IN  IF ~StrIncludes(src.chars, Marker)
        THEN img
        ELSE IF Truthy(realSrc)
        THEN SetAttr(img, <<"src">>, realSrc.chars)
        ELSE IF hits = {}
        THEN img
        ELSE SetAttr(img, <<"src">>, img[Min(hits)].value)

fixLazyImages(root) == [k \in 1..Len(root) |-> fixLazyImage(root[k])]

InitImages ==
    /\ call \in [fn : {"fixLazyImages"}, root : Roots]
    /\ ret = NoRet
    /\ ScrapeIdle

\* fixLazyImages changes the document in place: `ret` holds the root after
\* the latest application and, in `once`, the root after the first one.
ApplyFixLazyImages ==
    /\ call.fn = "fixLazyImages"
    /\ ret = NoRet
    /\ LET fixed == fixLazyImages(call.root)
       IN  ret' = [status |-> "applied", times |-> 1, root |-> fixed, once |-> fixed]
    /\ UNCHANGED <<call, ScrapeVars>>

ApplyFixLazyImagesAgain ==
    /\ call.fn = "fixLazyImages"
    /\ ret.status = "applied"
    /\ ret.times = 1
    /\ ret' = [ret EXCEPT !.times = 2, !.root = fixLazyImages(ret.root)]
    /\ UNCHANGED <<call, ScrapeVars>>

NextImages == ApplyFixLazyImages \/ ApplyFixLazyImagesAgain

SpecImages == InitImages /\ [][NextImages]_vars

\* C15: fixLazyImages is idempotent: applied a second time to the root it
\* has already been applied to, it leaves every attribute of every image as
\* the first application left it, also when an adopted value itself
\* contains the placeholder marker.
C15_FixLazyImagesIdempotent ==
    call.fn = "fixLazyImages" /\ ret.status = "applied" /\ ret.times = 2 =>
        ret.root = ret.once

C15_Witness ==
    /\ call.fn = "fixLazyImages"
    /\ ret.status = "applied"
    /\ ret.times = 2
    /\ call.root = <<  <<[name |-> <<"src">>, value |-> <<Marker, ",<svg/>">>],
                         [name |-> <<"data-", "src">>, value |-> <<"http", "://a/?", Marker>>],
                         [name |-> <<"data-", "url">>, value |-> <<"http", "://a/1.png">>]>>  >>
    /\ ret.once # call.root
    /\ ret.root[1][1].value = <<"http", "://a/?", Marker>>

\* C16: for an image whose src is a placeholder, src becomes the first
\* non-empty of data-src, data-original, data-lazy-src in that order; only
\* when all three are empty or absent, the value of the first attribute in
\* attribute order whose name starts with "data-" and whose value starts with
\* "http"; and when there is none, the image stays as it was.  No other
\* attribute changes.
C16_LazySourceOrder ==
    call.fn = "fixLazyImages" /\ ret.status = "applied" /\ ret.times = 1 =>
        /\ Len(ret.root) = Len(call.root)
        /\ \A n \in 1..Len(call.root) :
              LET before == call.root[n]
                  after == ret.root[n]
                  Value(name) ==
                      IF \E k \in 1..Len(before) : before[k].name = name
                      THEN before[CHOOSE k \in 1..Len(before) : before[k].name = name].value
                      ELSE <<>>
                  placeholder == \E k \in 1..Len(Value(<<"src">>)) :
                                     Value(<<"src">>)[k] = Marker
                  lazy == <<Value(<<"data-", "src">>), Value(<<"data-", "original">>),
                            Value(<<"data-", "lazy-src">>)>>
                  others == {k \in 1..Len(before) :
                                /\ before[k].name[1] = "data-"
                                /\ before[k].value # <<>>
                                /\ before[k].value[1] = "http"}
                  srcAfter == after[CHOOSE k \in 1..Len(after) : after[k].name = <<"src">>].value
              IN  placeholder =>
                    /\ Len(after) = Len(before)
                    /\ \A k \in 1..Len(before) :
                          /\ after[k].name = before[k].name
                          /\ before[k].name # <<"src">> => after[k] = before[k]
                    /\ \A j \in 1..3 :
                          lazy[j] # <<>> /\ (\A h \in 1..(j - 1) : lazy[h] = <<>>) =>
                              srcAfter = lazy[j]
                    /\ (\A j \in 1..3 : lazy[j] = <<>>) =>
                          /\ \A k \in others :
                                (\A h \in others : k <= h) => srcAfter = before[k].value
                          /\ others = {} => after = before

C16_Witness ==
    /\ call.fn = "fixLazyImages"
    /\ ret.status = "applied"
    /\ ret.times = 1
    /\ call.root = <<  <<[name |-> <<"data-", "w">>, value |-> <<Marker, ",<svg/>">>],
                         [name |-> <<"src">>, value |-> <<Marker, ",<svg/>">>],
                         [name |-> <<"data-", "url">>, value |-> <<"http", "://a/1.png">>]>>  >>
    /\ ret.root[1][2].value = <<"http", "://a/1.png">>

(***************************************************************************)
(* fixLazyImages in its document.  The document is the sequence of all its *)
(* img elements in document order; inRoot tells whether the element is a   *)
(* descendant of the content root handed to fixLazyImages.  The function   *)
(* changes the elements in place.                                          *)
(***************************************************************************)
Documents ==
    {[k \in 1..Len(root) |-> [inRoot |-> f[k], attrs |-> root[k]]] :
        root \in Roots, f \in [1..2 -> BOOLEAN]}

\* A variant that takes every img element of the document.
images_Everywhere(doc) == 1..Len(doc)

\* articleContent.find('img')
images(doc) == {k \in 1..Len(doc) : doc[k].inRoot}

InitDocument ==
    /\ call \in [fn : {"fixLazyImages in document"}, doc : Documents]
    /\ ret = NoRet
    /\ ScrapeIdle

ApplyFixLazyImagesInDocument ==
    /\ call.fn = "fixLazyImages in document"
    /\ ret = NoRet
    /\ ret' = [status |-> "applied",
               doc |-> [k \in 1..Len(call.doc) |->
                           IF k \in images(call.doc)
                           THEN [call.doc[k] EXCEPT !.attrs = fixLazyImage(@)]
                           ELSE call.doc[k]]]
    /\ UNCHANGED <<call, ScrapeVars>>

SpecDocument == InitDocument /\ [][ApplyFixLazyImagesInDocument]_vars

\* The src of an image holds the placeholder marker.
IsPlaceholder(attrs) ==
    \E k \in 1..Len(attrs) :
        attrs[k].name = <<"src">> /\ StrIncludes(attrs[k].value, Marker)

\* C39: fixLazyImages changes nothing but the src attribute of placeholder
\* images inside the content root: every image keeps its attributes, in
\* their order, with their values, but for the value of src; an image whose
\* src does not hold the placeholder marker stays as it was whatever its
\* data- attributes hold; and an image outside the content root stays as it
\* was.
C39_OnlySrcOfPlaceholdersInRoot ==
    call.fn = "fixLazyImages in document" /\ ret.status = "applied" =>
        /\ Len(ret.doc) = Len(call.doc)
        /\ \A n \in 1..Len(call.doc) :
              LET before == call.doc[n].attrs
                  after == ret.doc[n].attrs
              IN  /\ ret.doc[n].inRoot = call.doc[n].inRoot
                  /\ Len(after) = Len(before)
                  /\ \A k \in 1..Len(before) :
                        /\ after[k].name = before[k].name
                        /\ before[k].name # <<"src">> => after[k].value = before[k].value
                  /\ ~IsPlaceholder(before) => after = before
                  /\ ~call.doc[n].inRoot => after = before

\* A placeholder image outside the content root, with a data-src, has been
\* left as it was.
C39_Witness ==
    /\ call.fn = "fixLazyImages in document"
    /\ ret.status = "applied"
    /\ call.doc = <<[inRoot |-> FALSE,
                     attrs |-> <<[name |-> <<"src">>, value |-> <<Marker, ",<svg/>">>],
                                 [name |-> <<"data-", "src">>,
                                  value |-> <<"http", "://a/1.png">>]>>]>>
    /\ fixLazyImage(call.doc[1].attrs) # call.doc[1].attrs
    /\ ret.doc = call.doc

(***************************************************************************)
(* Text and regular expressions.  A text is the sequence of its            *)
(* characters; the Chinese characters are written by their pinyin names    *)
(* (nian, yue, ri: year, month, day; shang, xia, wu: the morning and       *)
(* afternoon markers shang-wu and xia-wu; fa-bu-shi-jian, fa-bu-yu,        *)
(* bei-jing-shi-jian: the three boilerplate labels; fwcolon: the full      *)
(* width colon).  A regular expression is a sequence of nodes: a character *)
(* set with its greedy repetition bounds, an ordered alternation of        *)
(* sequences, the opening and closing of a capture group, and the end      *)
(* anchor.  Match tries the alternatives in the order and with the         *)
(* backtracking of the JavaScript engine.                                  *)
(***************************************************************************)
Digits == <<"0", "1", "2", "3", "4", "5", "6", "7", "8", "9">>

D == {Digits[k] : k \in 1..10}

WS == {" ", "tab", "nbsp"}

Set(S, min, max) == [t |-> "set", set |-> S, min |-> min, max |-> max]

Lit(chars) == [k \in 1..Len(chars) |-> Set({chars[k]}, 1, 1)]

Alt(alts) == <<[t |-> "alt", alts |-> alts]>>

Opt(re) == Alt(<<re, <<>>>>)

Cap(id, re) == <<[t |-> "open", id |-> id]>> \o re \o <<[t |-> "close", id |-> id]>>

NoCaps == [k \in 1..10 |-> <<0, 0>>]

NoMatch == [ok |-> FALSE, start |-> 0, end |-> 0, caps |-> NoCaps]

RECURSIVE Match(_, _, _, _, _)
Match(re, text, start, pos, caps) ==
    IF Len(re) = 0
    THEN [ok |-> TRUE, start |-> start, end |-> pos, caps |-> caps]
    ELSE LET node == Head(re)
             rest == Tail(re)
         IN  CASE node.t = "set" ->
                    \* the longest run first, then one character less
                    LET run == CHOOSE n \in 0..Len(text) :
                                   /\ n <= node.max
                                   /\ pos + n - 1 <= Len(text)
                                   /\ \A j \in 0..(n - 1) : text[pos + j] \in node.set
                                   /\ \/ n = node.max
                                      \/ pos + n > Len(text)
                                      \/ text[pos + n] \notin node.set
                        longest == Match(rest, text, start, pos + run, caps)
                    IN  IF run < node.min
                        THEN NoMatch
                        ELSE IF longest.ok \/ run = node.min
                        THEN longest
                        ELSE Match(<<[node EXCEPT !.max = run - 1]>> \o rest,
                                   text, start, pos, caps)
               [] node.t = "alt" ->
                    LET first == Match(Head(node.alts) \o rest, text, start, pos, caps)
                    IN  IF first.ok \/ Len(node.alts) = 1
                        THEN first
                        ELSE Match(<<[node EXCEPT !.alts = Tail(@)]>> \o rest,
                                   text, start, pos, caps)
               [] node.t = "open" ->
                    Match(rest, text, start, pos, [caps EXCEPT ![node.id] = <<pos, 0>>])
               [] node.t = "close" ->
                    Match(rest, text, start, pos, [caps EXCEPT ![node.id] = <<@[1], pos>>])
               [] node.t = "end" ->
                    IF pos = Len(text) + 1
                    THEN Match(rest, text, start, pos, caps)
                    ELSE NoMatch

\* text.match(re): the leftmost match at or after position `from`.
RECURSIVE Search(_, _, _)
Search(re, text, from) ==
    LET here == Match(re, text, from, from, NoCaps)
    IN  IF here.ok \/ from > Len(text) THEN here ELSE Search(re, text, from + 1)

\* The text of capture group id, Undefined when the group did not take part.
Group(m, text, id) ==
    IF m.caps[id][2] = 0
    THEN Undefined
    ELSE Str(SubSeq(text, m.caps[id][1], m.caps[id][2] - 1))

\* text.replace(re, with) for a global re that matches no empty text.
RECURSIVE ReplaceAll(_, _, _)
ReplaceAll(re, text, with) ==
    LET m == Search(re, text, 1)
    IN  IF ~m.ok
        THEN text
        ELSE SubSeq(text, 1, m.start - 1) \o with
                \o ReplaceAll(re, SubSeq(text, m.end, Len(text)), with)

\* String.prototype.trim
Trim(text) ==
    LET inner == {p \in 1..Len(text) : text[p] \notin WS}
    IN  IF inner = {}
        THEN <<>>
        ELSE SubSeq(text, Min(inner), CHOOSE p \in inner : \A q \in inner : q <= p)

(***************************************************************************)
(* Numbers and their decimal digits (parseInt, String, padStart).          *)
(***************************************************************************)
RECURSIVE Num(_)
Num(chars) ==
    IF chars = <<>>
    THEN 0
    ELSE 10 * Num(SubSeq(chars, 1, Len(chars) - 1))
            + (CHOOSE v \in 0..9 : Digits[v + 1] = chars[Len(chars)])

\* String(n).padStart(width, '0') for 0 <= n < 10^width
Pad(n, width) == [k \in 1..width |-> Digits[((n \div (10 ^ (width - k))) % 10) + 1]]

(***************************************************************************)
(* The regular expressions of parsePublishDate.  Under the i flag a letter *)
(* stands for both of its cases.                                           *)
(***************************************************************************)
PrefixRe ==
    Alt(<<Lit(<<"fa", "bu", "shi", "jian">>) \o <<Set({":", "fwcolon"}, 0, 1)>>,
          Lit(<<"fa", "bu", "yu">>),
          Lit(<<"bei", "jing", "shi", "jian">>)>>)

AmPmRe ==
    Alt(<<<<Set({"shang", "xia"}, 1, 1), Set({"wu"}, 1, 1)>>,
          <<Set({"A", "a"}, 1, 1), Set({"M", "m"}, 1, 1)>>,
          <<Set({"P", "p"}, 1, 1), Set({"M", "m"}, 1, 1)>>>>)

\* A variant that knows only the Z suffix.
IsoTzRe_ZOnly ==
    <<Set(D, 4, 4)>> \o Lit(<<"-">>) \o <<Set(D, 2, 2)>> \o Lit(<<"-">>) \o <<Set(D, 2, 2)>>
        \o <<Set({"T", "t"} \cup WS, 1, 1), Set(D, 2, 2)>> \o Lit(<<":">>) \o <<Set(D, 2, 2)>>
        \o Opt(Lit(<<":">>) \o <<Set(D, 2, 2)>> \o Opt(Lit(<<".">>) \o <<Set(D, 3, 3)>>))
        \o <<Set({"Z", "z"}, 1, 1)>>

IsoTzRe ==
    <<Set(D, 4, 4)>> \o Lit(<<"-">>) \o <<Set(D, 2, 2)>> \o Lit(<<"-">>) \o <<Set(D, 2, 2)>>
        \o <<Set({"T", "t"} \cup WS, 1, 1), Set(D, 2, 2)>> \o Lit(<<":">>) \o <<Set(D, 2, 2)>>
        \o Opt(Lit(<<":">>) \o <<Set(D, 2, 2)>> \o Opt(Lit(<<".">>) \o <<Set(D, 3, 3)>>))
        \o Alt(<<<<Set({"Z", "z"}, 1, 1)>>,
                 <<Set({"+", "-"}, 1, 1), Set(D, 2, 2), Set({":"}, 0, 1), Set(D, 2, 2)>>>>)

OffsetTailRe ==
    Cap(1, <<Set({"+", "-"}, 1, 1), Set(D, 2, 2)>>) \o Cap(2, <<Set(D, 2, 2)>>)
        \o <<[t |-> "end"]>>

CnRe ==
    Opt(Cap(1, <<Set(D, 4, 4)>>) \o Lit(<<"nian">>))
        \o <<Set(WS, 0, 99)>> \o Cap(2, <<Set(D, 1, 2)>>) \o Lit(<<"yue">>)
        \o <<Set(WS, 0, 99)>> \o Cap(3, <<Set(D, 1, 2)>>) \o Lit(<<"ri">>)
        \o <<Set(WS, 0, 99)>> \o Opt(Cap(4, AmPmRe) \o <<Set(WS, 0, 99)>>)
        \o Cap(5, <<Set(D, 1, 2)>>)
        \o Opt(Lit(<<":">>) \o Cap(6, <<Set(D, 1, 2)>>)
                  \o Opt(Lit(<<":">>) \o Cap(7, <<Set(D, 1, 2)>>)))

StdRe ==
    Cap(1, <<Set(D, 4, 4)>>) \o Lit(<<"-">>) \o Cap(2, <<Set(D, 2, 2)>>) \o Lit(<<"-">>)
        \o Cap(3, <<Set(D, 2, 2)>>) \o <<Set({"T", "t"} \cup WS, 1, 1)>>
        \o Cap(4, <<Set(D, 1, 2)>>) \o Lit(<<":">>) \o Cap(5, <<Set(D, 2, 2)>>)
        \o Opt(Lit(<<":">>) \o Cap(6, <<Set(D, 2, 2)>>))
        \o Opt(<<Set(WS, 0, 99)>> \o Cap(7, AmPmRe))

FallbackRe ==
    Cap(1, <<Set(D, 4, 4)>>) \o Lit(<<"-">>) \o Cap(2, <<Set(D, 2, 2)>>) \o Lit(<<"-">>)
        \o Cap(3, <<Set(D, 2, 2)>>)
        \o Opt(<<Set({"T"} \cup WS, 1, 1)>> \o Cap(4, <<Set(D, 2, 2)>>) \o Lit(<<":">>)
                  \o Cap(5, <<Set(D, 2, 2)>>) \o Opt(Lit(<<":">>) \o Cap(6, <<Set(D, 2, 2)>>)))

(***************************************************************************)
(* new Date(string) and toISOString of the JavaScript engine of Node (V8), *)
(* for the date-time strings with an offset that parsePublishDate builds.  *)
(* An instant is a day number (days since 1970-01-01), the second of that  *)
(* day and the millisecond.  A day of the month up to 31 is accepted and   *)
(* carried into the next month; 24:00:00 is the start of the next day.     *)
(***************************************************************************)
Es5Re ==
    Cap(1, <<Set(D, 4, 4)>>) \o Lit(<<"-">>) \o Cap(2, <<Set(D, 2, 2)>>) \o Lit(<<"-">>)
        \o Cap(3, <<Set(D, 2, 2)>>) \o <<Set({"T", "t"}, 1, 1)>>
        \o Cap(4, <<Set(D, 2, 2)>>) \o Lit(<<":">>) \o Cap(5, <<Set(D, 2, 2)>>)
        \o Opt(Lit(<<":">>) \o Cap(6, <<Set(D, 2, 2)>>)
                  \o Opt(Lit(<<".">>) \o Cap(7, <<Set(D, 3, 3)>>)))
        \o Alt(<<<<Set({"Z", "z"}, 1, 1)>>,
                 Cap(8, <<Set({"+", "-"}, 1, 1)>>) \o Cap(9, <<Set(D, 2, 2)>>)
                    \o <<Set({":"}, 0, 1)>> \o Cap(10, <<Set(D, 2, 2)>>)>>)
        \o <<[t |-> "end"]>>

DaysFromCivil(year, month, day) ==
    LET y == IF month <= 2 THEN year - 1 ELSE year
        era == y \div 400
        yoe == y - era * 400
        doy == (153 * (IF month > 2 THEN month - 3 ELSE month + 9) + 2) \div 5 + day - 1
        doe == yoe * 365 + yoe \div 4 - yoe \div 100 + doy
    IN  era * 146097 + doe - 719468

CivilFromDays(days) ==
    LET z == days + 719468
        era == z \div 146097
        doe == z - era * 146097
        yoe == (doe - doe \div 1460 + doe \div 36524 - doe \div 146096) \div 365
        doy == doe - (365 * yoe + yoe \div 4 - yoe \div 100)
        mp == (5 * doy + 2) \div 153
        month == IF mp < 10 THEN mp + 3 ELSE mp - 9
    IN  [year |-> yoe + era * 400 + (IF month <= 2 THEN 1 ELSE 0),
         month |-> month,
         day |-> doy - (153 * mp + 2) \div 5 + 1]

\* A variant that accepts any field values.
ValidFields_NoRange(f) == TRUE

ValidFields(f) ==
    /\ f.month \in 1..12
    /\ f.day \in 1..31
    /\ f.hour <= 23 \/ (f.hour = 24 /\ f.minute = 0 /\ f.second = 0 /\ f.ms = 0)
    /\ f.minute <= 59
    /\ f.second <= 59
    /\ f.offsetHour <= 23
    /\ f.offsetMinute <= 59

\* The element of a set of one element: The({e(v) : v \in {x}}) is e(x), with
\* x computed once, as a const declaration computes its initial value once.
The(S) == CHOOSE v \in S : TRUE

NewDate(chars) ==
    The({The({IF /\ m.ok
                 /\ ValidFields(f)
              THEN The({[valid |-> TRUE,
                         days |-> DaysFromCivil(f.year, f.month, 1) + (f.day - 1)
                                     + utc \div 86400,
                         secs |-> utc % 86400,
                         ms |-> f.ms] :
                        utc \in {f.hour * 3600 + f.minute * 60 + f.second
                                    - f.sign * (f.offsetHour * 3600 + f.offsetMinute * 60)}})
              ELSE [valid |-> FALSE, days |-> 0, secs |-> 0, ms |-> 0] :
              f \in {[year |-> Num(Group(m, chars, 1).chars),
                      month |-> Num(Group(m, chars, 2).chars),
                      day |-> Num(Group(m, chars, 3).chars),
                      hour |-> Num(Group(m, chars, 4).chars),
                      minute |-> Num(Group(m, chars, 5).chars),
                      second |-> Num(Group(m, chars, 6).chars),
                      ms |-> Num(Group(m, chars, 7).chars),
                      sign |-> IF Group(m, chars, 8).chars = <<"-">> THEN -1 ELSE 1,
                      offsetHour |-> Num(Group(m, chars, 9).chars),
                      offsetMinute |-> Num(Group(m, chars, 10).chars)]}}) :
         m \in {Match(Es5Re, chars, 1, 1, NoCaps)}})

ToISOString(date) ==
    The({(IF c.year \in 0..9999
          THEN Pad(c.year, 4)
          ELSE <<IF c.year < 0 THEN "-" ELSE "+">>
                  \o Pad(IF c.year < 0 THEN -c.year ELSE c.year, 6))
            \o <<"-">> \o Pad(c.month, 2) \o <<"-">> \o Pad(c.day, 2) \o <<"T">>
            \o Pad(date.secs \div 3600, 2) \o <<":">> \o Pad((date.secs \div 60) % 60, 2)
            \o <<":">> \o Pad(date.secs % 60, 2) \o <<".">> \o Pad(date.ms, 3) \o <<"Z">> :
         c \in {CivilFromDays(date.days)}})

(***************************************************************************)
(* parsePublishDate(dateText), called when the clock of the process shows  *)
(* the year clockYear.                                                     *)
(***************************************************************************)
\* A variant that takes the written local time for UTC.
LocalOffset_UTC == <<"+", "0", "0", ":", "0", "0">>

\* The offset appended to a text that writes none.
LocalOffset == <<"+", "0", "8", ":", "0", "0">>

\* A variant without the rule for 12 o'clock in the morning.
FixHour_NoMidnightRule(h, ampm) ==
    LET PmRe == Alt(<<Lit(<<"xia", "wu">>),
                      <<Set({"P", "p"}, 1, 1), Set({"M", "m"}, 1, 1)>>>>)
    IN  IF Search(PmRe, ampm, 1).ok /\ h < 12 THEN h + 12 ELSE h

FixHour(h, ampm) ==
    LET PmRe == Alt(<<Lit(<<"xia", "wu">>),
                      <<Set({"P", "p"}, 1, 1), Set({"M", "m"}, 1, 1)>>>>)
        AmRe == Alt(<<Lit(<<"shang", "wu">>),
                      <<Set({"A", "a"}, 1, 1), Set({"M", "m"}, 1, 1)>>>>)
        h1 == IF Search(PmRe, ampm, 1).ok /\ h < 12 THEN h + 12 ELSE h
    IN  IF Search(AmRe, ampm, 1).ok /\ h1 = 12 THEN 0 ELSE h1

\* A variant that takes the year 2025 whatever the clock shows.
CurrentYear_Fixed(clockYear) == Str(<<"2", "0", "2", "5">>)

\* String(new Date().getFullYear())
CurrentYear(clockYear) == Str(Pad(clockYear, 4))

\* The characters of capture group id of a destructured match, with the
\* default of the destructuring pattern for a group that took no part.
Default(m, text, id, default) ==
    IF m.caps[id][2] = 0 THEN default ELSE Group(m, text, id).chars

\* isoTzMatch[0].replace(' ', 'T').replace(/([+-]\d{2})(\d{2})$/, '$1:$2')
IsoLike(matched) ==
    The({The({IF tail.ok
              THEN SubSeq(withT, 1, tail.start - 1) \o Group(tail, withT, 1).chars
                       \o <<":">> \o Group(tail, withT, 2).chars
              ELSE withT :
              tail \in {Search(OffsetTailRe, withT, 1)}}) :
         withT \in {IF \E p \in 1..Len(matched) : matched[p] = " "
                    THEN [matched EXCEPT ![Min({p \in 1..Len(matched) : matched[p] = " "})]
                                             = "T"]
                    ELSE matched}})

\* A variant in which a grammar that matches ends the search.
Attempt_StopAtInvalid(m, string, rest) ==
    IF ~m.ok
    THEN rest
    ELSE The({IF d.valid THEN Str(ToISOString(d)) ELSE Str(<<>>) : d \in {NewDate(string)}})

\* One grammar: if (m) { const d = new Date(string); if (!isNaN(d.getTime()))
\* return d.toISOString(); } and otherwise what the rest of the function returns.
Attempt(m, string, rest) ==
    IF ~m.ok
    THEN rest
    ELSE The({IF d.valid THEN Str(ToISOString(d)) ELSE rest : d \in {NewDate(string)}})

parsePublishDate(dateText, clockYear) ==
    IF ~Truthy(dateText)
    THEN Str(<<>>)
    ELSE The({
        The({
            \* 1) date-time with Z or a numeric offset
            Attempt(isoTzMatch,
                    IsoLike(SubSeq(text, isoTzMatch.start, isoTzMatch.end - 1)),
            \* 2) Chinese calendar form
            Attempt(cnMatch,
                    Or(Group(cnMatch, text, 1), CurrentYear(clockYear)).chars
                        \o <<"-">> \o Pad(Num(Group(cnMatch, text, 2).chars), 2)
                        \o <<"-">> \o Pad(Num(Group(cnMatch, text, 3).chars), 2)
                        \o <<"T">> \o Pad(FixHour(Num(Default(cnMatch, text, 5, <<"0">>)),
                                                  Default(cnMatch, text, 4, <<>>)), 2)
                        \o <<":">> \o Pad(Num(Default(cnMatch, text, 6, <<"0">>)), 2)
                        \o <<":">> \o Pad(Num(Default(cnMatch, text, 7, <<"0">>)), 2)
                        \o LocalOffset,
            \* 3) standard form with a time
            Attempt(stdMatch,
                    Group(stdMatch, text, 1).chars
                        \o <<"-">> \o Group(stdMatch, text, 2).chars
                        \o <<"-">> \o Group(stdMatch, text, 3).chars
                        \o <<"T">> \o Pad(FixHour(Num(Group(stdMatch, text, 4).chars),
                                                  Default(stdMatch, text, 7, <<>>)), 2)
                        \o <<":">> \o Group(stdMatch, text, 5).chars
                        \o <<":">> \o Default(stdMatch, text, 6, <<"0", "0">>)
                        \o LocalOffset,
            \* 4) bare date, or date and time without offset
            Attempt(fallbackMatch,
                    Group(fallbackMatch, text, 1).chars
                        \o <<"-">> \o Group(fallbackMatch, text, 2).chars
                        \o <<"-">> \o Group(fallbackMatch, text, 3).chars
                        \o <<"T">> \o Default(fallbackMatch, text, 4, <<"0", "0">>)
                        \o <<":">> \o Default(fallbackMatch, text, 5, <<"0", "0">>)
                        \o <<":">> \o Default(fallbackMatch, text, 6, <<"0", "0">>)
                        \o LocalOffset,
            Str(<<>>))))) :
            isoTzMatch \in {Search(IsoTzRe, text, 1)},
            cnMatch \in {Search(CnRe, text, 1)},
            stdMatch \in {Search(StdRe, text, 1)},
            fallbackMatch \in {Search(FallbackRe, text, 1)}}) :
        text \in {ReplaceAll(<<Set(WS, 1, 99)>>,
                             ReplaceAll(PrefixRe, Trim(dateText.chars), <<>>), <<" ">>)}})

(***************************************************************************)
(* Arguments of parsePublishDate.  A date text is rendered from what it    *)
(* writes: a label in front, a calendar date, a time of day with or        *)
(* without a 12-hour marker, and Z or a numeric offset.  year = 0, minute  *)
(* = -1, second = -1 and ms = -1 say that the part is not written;         *)
(* hourWidth is the number of digits the hour is written with.  The other  *)
(* arguments are listed one by one: `rejected` ones match no grammar or    *)
(* have a field out of range, `other` ones are accepted in part.           *)
(***************************************************************************)
Labels ==
    {<<>>, <<"bei", "jing", "shi", "jian", " ">>, <<"fa", "bu", "shi", "jian", "fwcolon">>,
     <<"fa", "bu", "yu", " ">>}

Markers == {<<>>, <<"shang", "wu">>, <<"xia", "wu">>, <<"A", "M">>, <<"P", "M">>}

Days == {<<2025, 10, 29>>, <<2024, 2, 29>>, <<2025, 1, 1>>}

Hours == {0, 4, 11, 12, 13, 23}

ClockYears == {2024, 2028}

Written(form, label, withYear, date, marker, hour, hourWidth, minute, second, ms, sep, zone) ==
    [form |-> form, label |-> label, year |-> IF withYear = 0 THEN 0 ELSE date[1],
     month |-> date[2], day |-> date[3],
     marker |-> marker, hour |-> hour, hourWidth |-> hourWidth, minute |-> minute,
     second |-> second, ms |-> ms, sep |-> sep, zone |-> zone]

NoZone == [kind |-> "none", sign |-> 1, hour |-> 0, minute |-> 0]

Zones ==
    {[kind |-> "Z", sign |-> 1, hour |-> 0, minute |-> 0]}
        \cup [kind : {"colon", "plain"}, sign : {1}, hour : {8}, minute : {0}]
        \cup [kind : {"colon", "plain"}, sign : {-1}, hour : {5}, minute : {30}]
        \cup [kind : {"colon"}, sign : {1}, hour : {0, 14}, minute : {0}]

WrittenTexts ==
    {Written("cn", l, y, d, m, h, 1, t[1], t[2], -1, <<" ">>, NoZone) :
        l \in Labels, y \in {0, 1}, d \in Days, m \in Markers, h \in Hours,
        t \in {<<-1, -1>>, <<21, -1>>, <<5, 9>>}}
    \cup
    {Written("std", l, 1, d, m, h, w, 21, sec, -1, sep, NoZone) :
        l \in Labels, d \in Days, m \in Markers, h \in Hours, w \in {1, 2},
        sec \in {-1, 9}, sep \in {<<" ">>, <<"T">>}}
    \cup
    {Written("date", l, 1, d, <<>>, 0, 2, -1, -1, -1, <<>>, NoZone) :
        l \in Labels, d \in Days}
    \cup
    {Written("cndate", l, y, d, <<>>, 0, 1, -1, -1, -1, <<>>, NoZone) :
        l \in Labels, y \in {0, 1}, d \in Days}
    \cup
    {Written("tz", l, 1, d, <<>>, h, 2, 21, t[1], t[2], sep, z) :
        l \in {<<>>, <<"fa", "bu", "yu", " ">>}, d \in Days, h \in {0, 7, 16, 23},
        t \in {<<-1, -1>>, <<9, -1>>, <<9, 123>>}, sep \in {<<" ">>, <<"T">>}, z \in Zones}

\* The decimal digits of n < 100, without padding.
Decimal(n) == IF n < 10 THEN Pad(n, 1) ELSE Pad(n, 2)

Render(w) ==
    LET hour == IF w.hourWidth = 2 THEN Pad(w.hour, 2) ELSE Decimal(w.hour)
        time == hour
                  \o (IF w.minute < 0 THEN <<>> ELSE <<":">> \o Pad(w.minute, 2))
                  \o (IF w.second < 0 THEN <<>> ELSE <<":">> \o Pad(w.second, 2))
                  \o (IF w.ms < 0 THEN <<>> ELSE <<".">> \o Pad(w.ms, 3))
        date == Pad(w.year, 4) \o <<"-">> \o Pad(w.month, 2) \o <<"-">> \o Pad(w.day, 2)
        zone == CASE w.zone.kind = "none" -> <<>>
                  [] w.zone.kind = "Z" -> <<"Z">>
                  [] OTHER ->
                        <<IF w.zone.sign < 0 THEN "-" ELSE "+">> \o Pad(w.zone.hour, 2)
                            \o (IF w.zone.kind = "colon" THEN <<":">> ELSE <<>>)
                            \o Pad(w.zone.minute, 2)
    IN  w.label \o
        CASE w.form = "cn" ->
                (IF w.year = 0 THEN <<>> ELSE Pad(w.year, 4) \o <<"nian">>)
                    \o Decimal(w.month) \o <<"yue">> \o Decimal(w.day) \o <<"ri", " ">>
                    \o (IF w.marker = <<>> THEN <<>> ELSE w.marker \o <<" ">>) \o time
          [] w.form = "std" ->
                date \o w.sep \o time
                    \o (IF w.marker = <<>> THEN <<>> ELSE <<" ">> \o w.marker)
          [] w.form = "date" -> date
          [] w.form = "cndate" ->
                (IF w.year = 0 THEN <<>> ELSE Pad(w.year, 4) \o <<"nian">>)
                    \o Decimal(w.month) \o <<"yue">> \o Decimal(w.day) \o <<"ri">>
          [] w.form = "tz" -> date \o w.sep \o time \o zone

RejectedArguments ==
    {Undefined,
     Null,
     Str(<<>>),
     Number(<<"0">>),
     Number(<<"2", "0", "2", "5">>),
     Str(<<"a", "b", "c">>),
     Str(<<" ", " ">>),
     Str(<<"2", "0", "2", "5", "/", "1", "0", "/", "2", "9">>),
     Str(<<"2", "0", "2", "5", "-", "1", "3", "-", "0", "1", " ", "1", "0", ":", "0", "0">>),
     Str(<<"2", "0", "2", "5", "-", "1", "0", "-", "2", "9", " ", "2", "5", ":", "0", "0">>),
     Str(<<"2", "0", "2", "5", "-", "1", "0", "-", "2", "9", " ", "1", "0", ":", "6", "0">>),
     Str(<<"2", "0", "2", "5", "-", "1", "0", "-", "2", "9", "T", "2", "5", ":", "0", "0", ":", "0", "0", "+", "0", "8", ":", "0", "0">>),
     Str(<<"2", "0", "2", "5", "nian", "1", "3", "yue", "1", "ri", " ", "1", "0", ":", "0", "0">>),
     Str(<<"2", "0", "2", "5", "nian", "1", "0", "yue", "2", "9", "ri", " ", "2", "5", ":", "0", "0">>),
     Str(<<"2", "0", "2", "5", "nian", "1", "0", "yue", "2", "9", "ri">>),
     Str(<<"2", "0", "2", "5", "-", "1", "0", "-", "3", "2">>),
     Str(<<"2", "0", "2", "5", "-", "0", "0", "-", "1", "0">>)}

OtherArguments ==
    {Str(<<"2", "0", "2", "5", "-", "1", "0", "-", "2", "9", " ", "4", ":", "6", "1">>),
     Str(<<"2", "0", "2", "5", "-", "1", "0", "-", "2", "9", " ", "xia", "wu", " ", "4", ":", "2", "1">>),
     Str(<<"2", "0", "2", "5", "-", "0", "2", "-", "3", "0", " ", "1", "0", ":", "0", "0">>),
     Str(<<"2", "0", "2", "5", "-", "0", "1", "-", "0", "1", " ", "2", "4", ":", "0", "0">>),
     Str(<<"2", "0", "2", "5", "-", "1", "0", "-", "2", "9", "T", "1", "6", ":", "2", "1", ":", "0", "0", "+", "2", "5", ":", "0", "0">>)}

Listed(form) ==
    Written(form, <<>>, 0, <<0, 0, 0>>, <<>>, 0, 0, -1, -1, -1, <<>>, NoZone)

InitDate ==
    /\ call \in
          {[fn |-> "parsePublishDate", dateText |-> Str(Render(w)), clockYear |-> y,
            written |-> w] : w \in WrittenTexts, y \in ClockYears}
          \cup [fn : {"parsePublishDate"}, dateText : RejectedArguments,
                clockYear : ClockYears, written : {Listed("rejected")}]
          \cup [fn : {"parsePublishDate"}, dateText : OtherArguments,
                clockYear : ClockYears, written : {Listed("other")}]
    /\ ret = NoRet
    /\ ScrapeIdle

ApplyParsePublishDate ==
    /\ call.fn = "parsePublishDate"
    /\ ret = NoRet
    /\ ret' = Returned(parsePublishDate(call.dateText, call.clockYear))
    /\ UNCHANGED <<call, ScrapeVars>>

SpecDate == InitDate /\ [][ApplyParsePublishDate]_vars

(***************************************************************************)
(* Vocabulary of the date properties, independent of the day-number        *)
(* arithmetic above: the fields an ISO text shows, whether a text is a     *)
(* complete ISO-8601 UTC instant, a civil date-time moved by some minutes  *)
(* (less than a day), and the local date-time a rendered text writes.      *)
(***************************************************************************)
DaysInMonth(year, month) ==
    IF month = 2
    THEN IF year % 4 = 0 /\ (year % 100 # 0 \/ year % 400 = 0) THEN 29 ELSE 28
    ELSE IF month \in {4, 6, 9, 11} THEN 30 ELSE 31

IsoFields(chars) ==
    [year |-> Num(SubSeq(chars, 1, 4)), month |-> Num(SubSeq(chars, 6, 7)),
     day |-> Num(SubSeq(chars, 9, 10)), hour |-> Num(SubSeq(chars, 12, 13)),
     minute |-> Num(SubSeq(chars, 15, 16)), second |-> Num(SubSeq(chars, 18, 19)),
     ms |-> Num(SubSeq(chars, 21, 23))]

IsIso(chars) ==
    /\ Len(chars) = 24
    /\ \A k \in 1..24 :
          CASE k \in {5, 8} -> chars[k] = "-"
            [] k = 11 -> chars[k] = "T"
            [] k \in {14, 17} -> chars[k] = ":"
            [] k = 20 -> chars[k] = "."
            [] k = 24 -> chars[k] = "Z"
            [] OTHER -> chars[k] \in D
    /\ LET f == IsoFields(chars)
       IN  /\ f.month \in 1..12
           /\ f.day \in 1..DaysInMonth(f.year, f.month)
           /\ f.hour \in 0..23
           /\ f.minute \in 0..59
           /\ f.second \in 0..59

Shift(f, minutes) ==
    LET total == f.hour * 60 + f.minute + minutes
        time == [f EXCEPT !.hour = (total % 1440) \div 60, !.minute = total % 60]
    IN  IF total >= 1440
        THEN IF f.day < DaysInMonth(f.year, f.month)
             THEN [time EXCEPT !.day = f.day + 1]
             ELSE IF f.month < 12
             THEN [time EXCEPT !.day = 1, !.month = f.month + 1]
             ELSE [time EXCEPT !.day = 1, !.month = 1, !.year = f.year + 1]
        ELSE IF total < 0
        THEN IF f.day > 1
             THEN [time EXCEPT !.day = f.day - 1]
             ELSE IF f.month > 1
             THEN [time EXCEPT !.day = DaysInMonth(f.year, f.month - 1),
                               !.month = f.month - 1]
             ELSE [time EXCEPT !.day = 31, !.month = 12, !.year = f.year - 1]
        ELSE time

\* The local date-time a rendered text writes, on the 24-hour clock; a text
\* without a year means the year the clock shows.
WrittenLocal ==
    LET w == call.written
        pm == w.marker \in {<<"xia", "wu">>, <<"P", "M">>}
        am == w.marker \in {<<"shang", "wu">>, <<"A", "M">>}
    IN  [year |-> IF w.year = 0 THEN call.clockYear ELSE w.year,
         month |-> w.month,
         day |-> w.day,
         hour |-> IF pm /\ w.hour < 12 THEN w.hour + 12
                  ELSE IF am /\ w.hour = 12 THEN 0 ELSE w.hour,
         minute |-> IF w.minute < 0 THEN 0 ELSE w.minute,
         second |-> IF w.second < 0 THEN 0 ELSE w.second,
         ms |-> IF w.ms < 0 THEN 0 ELSE w.ms]

DateReturned == call.fn = "parsePublishDate" /\ ret.status = "returned"

\* C17: in the Chinese calendar form and in the standard form without
\* offset, an afternoon marker turns an hour h < 12 into h + 12 and leaves
\* 12 as 12, a morning marker turns 12 into 0 and leaves any other hour, and
\* without a marker the hour is as written; the instant returned is that
\* hour of the written day at UTC+08:00.
C17_TwelveHourFixUp ==
    DateReturned /\ call.written.form \in {"cn", "std"} =>
        LET w == call.written
            pm == w.marker \in {<<"xia", "wu">>, <<"P", "M">>}
            am == w.marker \in {<<"shang", "wu">>, <<"A", "M">>}
            local == Shift(IsoFields(ret.value.chars), 8 * 60)
        IN  /\ IsIso(ret.value.chars)
            /\ local.month = w.month /\ local.day = w.day
            /\ pm /\ w.hour < 12 => local.hour = w.hour + 12
            /\ pm /\ w.hour = 12 => local.hour = 12
            /\ am /\ w.hour = 12 => local.hour = 0
            /\ am /\ w.hour # 12 => local.hour = w.hour
            /\ w.marker = <<>> => local.hour = w.hour

C17_Witness ==
    /\ DateReturned
    /\ call.written.form = "cn"
    /\ call.written.label = <<>>
    /\ call.written.year = 2025 /\ call.written.month = 10 /\ call.written.day = 29
    /\ call.written.marker = <<"shang", "wu">>
    /\ call.written.hour = 12 /\ call.written.minute = 21 /\ call.written.second = -1
    /\ ret.value.chars = <<"2", "0", "2", "5", "-", "1", "0", "-", "2", "8", "T", "1", "6", ":", "2", "1", ":", "0", "0", ".", "0", "0", "0", "Z">>

\* C18: for a text without offset in the Chinese, the standard or the
\* bare-date form, the instant returned is exactly 8 hours before the local
\* date-time the text writes (a bare date is 00:00:00 local, so 16:00 UTC of
\* the day before), whichever label stands in front of the date.
C18_LocalTimeIsUtcPlus8 ==
    DateReturned /\ call.written.form \in {"cn", "std", "date"} =>
        /\ IsIso(ret.value.chars)
        /\ Shift(IsoFields(ret.value.chars), 8 * 60) = WrittenLocal
        /\ call.written.form = "date" =>
              /\ IsoFields(ret.value.chars).hour = 16
              /\ IsoFields(ret.value.chars).minute = 0
              /\ IsoFields(ret.value.chars).second = 0

C18_Witness ==
    /\ DateReturned
    /\ call.written.form = "date"
    /\ call.written.label = <<"bei", "jing", "shi", "jian", " ">>
    /\ call.written.year = 2025 /\ call.written.month = 1 /\ call.written.day = 1
    /\ ret.value.chars = <<"2", "0", "2", "4", "-", "1", "2", "-", "3", "1", "T", "1", "6", ":", "0", "0", ":", "0", "0", ".", "0", "0", "0", "Z">>

\* C19: for a text with Z or a numeric offset, the instant returned is the
\* written date-time at the written offset, not at UTC+08:00: it does not
\* depend on the offset being written +HHMM or +HH:MM nor on the separator
\* being T or a space, and a text ending in Z comes back as the same instant.
C19_WrittenOffsetHonoured ==
    DateReturned /\ call.written.form = "tz" =>
        LET z == call.written.zone
        IN  /\ IsIso(ret.value.chars)
            /\ IsoFields(ret.value.chars) =
                  Shift(WrittenLocal, -(z.sign * (z.hour * 60 + z.minute)))
            /\ z.kind = "Z" => IsoFields(ret.value.chars) = WrittenLocal

C19_Witness ==
    /\ DateReturned
    /\ call.written.form = "tz"
    /\ call.written.zone = [kind |-> "plain", sign |-> -1, hour |-> 5, minute |-> 30]
    /\ call.written.sep = <<" ">>
    /\ call.written.year = 2024 /\ call.written.month = 2 /\ call.written.day = 29
    /\ call.written.hour = 23 /\ call.written.second = 9 /\ call.written.ms = 123
    /\ ret.value.chars = <<"2", "0", "2", "4", "-", "0", "3", "-", "0", "1", "T", "0", "4", ":", "5", "1", ":", "0", "9", ".", "1", "2", "3", "Z">>

\* C20: parsePublishDate returns for every argument: what it returns is a
\* string, either empty or a complete ISO-8601 UTC instant, and it is empty
\* for an argument that is empty, not a string without a date in it, matches
\* no grammar or has a field out of range.
C20_NeverRaisesIsoOrEmpty ==
    call.fn = "parsePublishDate" /\ ret # NoRet =>
        /\ ret.status = "returned"
        /\ ret.value.type = "string"
        /\ ret.value.chars = <<>> \/ IsIso(ret.value.chars)
        /\ call.written.form = "rejected" => ret.value.chars = <<>>

C20_Witness ==
    /\ DateReturned
    /\ call.dateText = Str(<<"2", "0", "2", "5", "-", "1", "3", "-", "0", "1", " ", "1", "0", ":", "0", "0">>)
    /\ ret.value = Str(<<>>)

\* C21: a text in the Chinese calendar form that writes only the date (year
\* or no year, month and day with their unit markers, nothing after the day
\* marker) is accepted: the result is the ISO instant of 00:00:00 of the
\* written day at UTC+08:00.
C21_ChineseDateWithoutTime ==
    DateReturned /\ call.written.form = "cndate" =>
        /\ IsIso(ret.value.chars)
        /\ Shift(IsoFields(ret.value.chars), 8 * 60) = WrittenLocal

\* C33: the grammars are tried in the order timezone-qualified, Chinese
\* calendar, standard without offset, bare fallback, and the first that
\* matches and constructs a valid instant gives the result.  A text with an
\* offset is read by the first grammar, at its offset, though the third and
\* fourth match it too; a standard text is read by the third, with its
\* 12-hour marker and its one-digit hour, though the fourth matches it too.
\* A grammar that matches and constructs an invalid instant does not end the
\* search: an offset of +25:00 leaves the text to the third grammar, a
\* minute of 61 leaves the date to the fourth, and the result is empty only
\* when no later grammar constructs a valid instant.
C33_FirstValidGrammarWins ==
    DateReturned =>
        /\ call.written.form = "tz" =>
              IsoFields(ret.value.chars) =
                  Shift(WrittenLocal,
                        -(call.written.zone.sign
                            * (call.written.zone.hour * 60 + call.written.zone.minute)))
        /\ call.written.form = "std" =>
              Shift(IsoFields(ret.value.chars), 8 * 60) = WrittenLocal
        /\ call.dateText = Str(<<"2", "0", "2", "5", "-", "1", "0", "-", "2", "9", "T",
                                 "1", "6", ":", "2", "1", ":", "0", "0",
                                 "+", "2", "5", ":", "0", "0">>) =>
              ret.value = Str(<<"2", "0", "2", "5", "-", "1", "0", "-", "2", "9", "T",
                                "0", "8", ":", "2", "1", ":", "0", "0", ".", "0", "0", "0",
                                "Z">>)
        /\ call.dateText = Str(<<"2", "0", "2", "5", "-", "1", "0", "-", "2", "9", " ",
                                 "4", ":", "6", "1">>) =>
              ret.value = Str(<<"2", "0", "2", "5", "-", "1", "0", "-", "2", "8", "T",
                                "1", "6", ":", "0", "0", ":", "0", "0", ".", "0", "0", "0",
                                "Z">>)
        /\ call.dateText \in
              {Str(<<"2", "0", "2", "5", "-", "1", "0", "-", "2", "9", "T",
                     "2", "5", ":", "0", "0", ":", "0", "0", "+", "0", "8", ":", "0", "0">>),
               Str(<<"2", "0", "2", "5", "nian", "1", "0", "yue", "2", "9", "ri", " ",
                     "2", "5", ":", "0", "0">>)} =>
              ret.value = Str(<<>>)

\* The first grammar matched a text with the offset +25:00 and the third
\* grammar gave the result.
C33_Witness ==
    /\ DateReturned
    /\ call.dateText = Str(<<"2", "0", "2", "5", "-", "1", "0", "-", "2", "9", "T",
                             "1", "6", ":", "2", "1", ":", "0", "0",
                             "+", "2", "5", ":", "0", "0">>)
    /\ Search(IsoTzRe, call.dateText.chars, 1).ok
    /\ ret.value.chars # <<>>

\* C22: for a text in the Chinese calendar form that writes a time but no
\* year, the result is the one for the same text with the year the clock
\* shows written in front: the ISO instant of the written month, day and time
\* of that year at UTC+08:00.
C22_YearOmittedUsesClockYear ==
    DateReturned /\ call.written.form = "cn" /\ call.written.year = 0 =>
        /\ ret.value = parsePublishDate(
                           Str(Render([call.written EXCEPT !.year = call.clockYear])),
                           call.clockYear)
        /\ IsIso(ret.value.chars)
        /\ Shift(IsoFields(ret.value.chars), 8 * 60).year = call.clockYear
        /\ Shift(IsoFields(ret.value.chars), 8 * 60) = WrittenLocal

C22_Witness ==
    /\ DateReturned
    /\ call.clockYear = 2028
    /\ call.dateText = Str(<<"1", "0", "yue", "2", "9", "ri", " ", "1", "3", ":", "2", "1">>)
    /\ ret.value.chars = <<"2", "0", "2", "8", "-", "1", "0", "-", "2", "9", "T", "0", "5", ":", "2", "1", ":", "0", "0", ".", "0", "0", "0", "Z">>

(***************************************************************************)
(* Calls of parsePublishDate one after another on one scraper: the call    *)
(* record keeps, in `earlier`, the calls already answered (text, year of   *)
(* the clock at the call, value returned).  The next call is made when the *)
(* clock shows the same or a later year, with the same text, with the text *)
(* of an earlier call, or with another text.  parsePublishDate reads and   *)
(* writes no field of the scraper and its regular expressions are literals *)
(* evaluated anew by each call, so a call leaves nothing behind.           *)
(***************************************************************************)
MaxCalls == 3

InitRepeat ==
    /\ call \in
          {[fn |-> "parsePublishDate", dateText |-> Str(Render(w)), clockYear |-> y,
            written |-> w, earlier |-> <<>>] :
              w \in {v \in WrittenTexts :
                        /\ v.label = <<>>
                        /\ <<v.month, v.day>> = <<10, 29>>
                        /\ v.hour \in {0, 4}
                        /\ v.marker \in {<<>>, <<"xia", "wu">>}
                        /\ v.second < 0},
              y \in ClockYears}
          \cup [fn : {"parsePublishDate"}, dateText : {Undefined, Str(<<"a", "b", "c">>)},
                clockYear : ClockYears, written : {Listed("rejected")}, earlier : {<<>>}]
    /\ ret = NoRet
    /\ ScrapeIdle

CallAgain ==
    /\ call.fn = "parsePublishDate"
    /\ ret.status = "returned"
    /\ Len(call.earlier) + 1 < MaxCalls
    /\ \E y \in ClockYears :
       \E next \in {[dateText |-> call.dateText, written |-> call.written],
                    [dateText |-> Str(<<"2", "0", "2", "5", "-", "1", "0", "-", "2", "9",
                                        " ", "1", "6", ":", "2", "1">>),
                     written |-> Listed("other")]}
                      \cup {[dateText |-> call.earlier[k].dateText,
                             written |-> call.earlier[k].written] :
                                k \in 1..Len(call.earlier)} :
          /\ y >= call.clockYear
          /\ call' = [fn |-> "parsePublishDate", dateText |-> next.dateText,
                      clockYear |-> y, written |-> next.written,
                      earlier |-> Append(call.earlier,
                                         [dateText |-> call.dateText,
                                          clockYear |-> call.clockYear,
                                          written |-> call.written,
                                          value |-> ret.value])]
    /\ ret' = NoRet
    /\ UNCHANGED ScrapeVars

SpecRepeat == InitRepeat /\ [][ApplyParsePublishDate \/ CallAgain]_vars

\* C23 as stated: a call returns what every earlier call with the same text
\* returned, whenever the calls were made.
C23_Deterministic ==
    DateReturned =>
        \A k \in 1..Len(call.earlier) :
            call.earlier[k].dateText = call.dateText => call.earlier[k].value = ret.value

\* C23 amended: a call returns what every earlier call with the same text
\* returned when the clock showed the same year at both calls, or when the
\* text is not a Chinese calendar form without a year; the calls in between
\* make no difference.
C23_DeterministicGivenClockYear ==
    DateReturned =>
        \A k \in 1..Len(call.earlier) :
            /\ call.earlier[k].dateText = call.dateText
            /\ \/ call.earlier[k].clockYear = call.clockYear
               \/ ~(call.written.form = "cn" /\ call.written.year = 0)
            => call.earlier[k].value = ret.value

C23_Witness ==
    /\ DateReturned
    /\ Len(call.earlier) = 2
    /\ call.earlier[1].dateText = call.dateText
    /\ call.earlier[2].dateText # call.dateText
    /\ call.earlier[1].clockYear = 2024 /\ call.clockYear = 2028
    /\ call.written.form = "cn" /\ call.written.year = 2025
    /\ call.earlier[1].value = ret.value
    /\ ret.value.chars # <<>>

(***************************************************************************)
(* A tool call from its arrival to its reply (src/mcp-server.js 161-250),  *)
(* and the constructor of the scraper called on its own (src/scraper.js    *)
(* 11-21).  `call` holds the request: the tool name, whether the process   *)
(* environment holds a Scrapeless credential, and the proxyCountry         *)
(* argument ("" when the request has none).  The handler passes neither    *)
(* proxyRetries nor proxyURL to scrapeArticle, which so runs with its      *)
(* default list and no custom proxy.  `ret` is the reply.  Every request   *)
(* carries an arguments object, as the input schema of the tool requires.  *)
(* The record scrapeArticle returns is kept symbolic but for its data      *)
(* object, whose keys html and markdown processHtmlContent sets or leaves  *)
(* out and whose values may be empty; the success reply keeps, in          *)
(* `result`, the record it was built from.                                 *)
(***************************************************************************)
DataObjects ==
    UNION {[keys -> {<<>>, <<"x">>}] : keys \in SUBSET {"html", "markdown"}}

\* A variant that copies data.markdown whenever the key is there.
jsonResponse_MarkdownIfPresent(r) ==
    LET j0 == [status |-> <<"success">>, url |-> r.url, timestamp |-> r.timestamp,
               metadata |-> r.metadata]
        j1 == IF "markdown" \in DOMAIN r.data
              THEN ("markdown" :> r.data["markdown"]) @@ j0
              ELSE j0
        j2 == IF "html" \in DOMAIN r.data /\ r.data["html"] # <<>>
              THEN ("html" :> r.data["html"]) @@ j1
              ELSE j1
    IN  j2

\* Lines 204-221: the object the success reply carries.
jsonResponse(r) ==
    LET j0 == [status |-> <<"success">>, url |-> r.url, timestamp |-> r.timestamp,
               metadata |-> r.metadata]
        j1 == IF "markdown" \in DOMAIN r.data /\ r.data["markdown"] # <<>>
              THEN ("markdown" :> r.data["markdown"]) @@ j0
              ELSE j0
        j2 == IF "html" \in DOMAIN r.data /\ r.data["html"] # <<>>
              THEN ("html" :> r.data["html"]) @@ j1
              ELSE j1
    IN  j2

InitTool ==
    /\ call \in [fn : {"call_tool"}, name : {"scrape_wechat_article", "other_tool"},
                 apiKey : BOOLEAN, proxyCountry : {"", "CN", "US"}]
                 \cup [fn : {"constructor"}, apiKey : BOOLEAN]
    /\ ret = NoRet
    /\ ScrapeIdle

\* A variant that does not look at the credential.
HandleCall_NoKeyCheck ==
    /\ call.fn = "call_tool" /\ pc = "idle" /\ ret = NoRet
    /\ fn' = "scrapeArticle"
    /\ pc' = "start"
    /\ proxyRetries' = DefaultProxyRetries
    /\ UNCHANGED <<call, ret, proxyURL, proxyIndex, browser, retries, i, error, lastError,
                   htmlContent, result, outcome, sessions, gotoCalls, navPauses,
                   gotoOk, gotoTotal, trail,
                   stepTimers, timerReads, backoffs, producedAt>>

\* Lines 161-190: an unknown tool and a missing credential are answered at
\* once; otherwise the scraper is constructed and scrapeArticle is called.
HandleCall ==
    /\ call.fn = "call_tool" /\ pc = "idle" /\ ret = NoRet
    /\ IF call.name # "scrape_wechat_article" \/ ~call.apiKey
       THEN /\ ret' = Returned(CallTool(call.name, call.apiKey, outcome))
            /\ UNCHANGED <<fn, pc, proxyRetries>>
       ELSE /\ fn' = "scrapeArticle"
            /\ pc' = "start"
            /\ proxyRetries' = DefaultProxyRetries
            /\ ret' = ret
    /\ UNCHANGED <<call, proxyURL, proxyIndex, browser, retries, i, error, lastError,
                   htmlContent, result, outcome, sessions, gotoCalls, navPauses,
                   gotoOk, gotoTotal, trail,
                   stepTimers, timerReads, backoffs, producedAt>>

\* Lines 192-238: the reply once scrapeArticle has returned or thrown.  The
\* url, timestamp and metadata of the record are tokens.
HandleReturn ==
    /\ call.fn = "call_tool" /\ pc = "done" /\ ret = NoRet
    /\ IF CallTool(call.name, call.apiKey, outcome).isError
       THEN ret' = Returned(CallTool(call.name, call.apiKey, outcome))
       ELSE \E data \in DataObjects :
               LET r == [url |-> <<"url">>, timestamp |-> <<"timestamp">>,
                         metadata |-> <<"metadata">>, data |-> data]
               IN  ret' = Returned([isError |-> FALSE,
                                    text |-> <<"json", jsonResponse(r)>>,
                                    result |-> r])
    /\ UNCHANGED <<call, ScrapeVars>>

\* new WeChatArticleScraper(apiKey)
Construct ==
    /\ call.fn = "constructor" /\ ret = NoRet
    /\ ret' = IF call.apiKey
              THEN Returned("scraper")
              ELSE [status |-> "thrown", value |-> "API Key is required"]
    /\ UNCHANGED <<call, ScrapeVars>>

SpecTool ==
    InitTool /\ [][\/ HandleCall \/ HandleReturn \/ Construct
                   \/ Start \/ LoopTest \/ Connect \/ NewPage \/ EvaluateOnNewDocument
                   \/ SetUserAgent \/ SetExtraHTTPHeaders \/ SetViewport \/ Goto
                   \/ NavPause \/ Settle \/ ScrollStep \/ ScrollPause \/ ScrollTop
                   \/ TopPause \/ Content \/ Process \/ Close \/ Catch \/ CatchClose
                   \/ Backoff \/ BackoffWait \/ Fail]_vars

C40_OneEnvelopePerCall ==
    [][call.fn = "call_tool" =>
          /\ ret = NoRet
          /\ ret' # NoRet => ret'.status = "returned"
          /\ call.name # "scrape_wechat_article" =>
                /\ fn = "none" /\ sessions = <<>>
                /\ ret' # NoRet /\ ret'.value.isError
          /\ call.name = "scrape_wechat_article" /\ ~call.apiKey =>
                /\ fn = "none" /\ sessions = <<>>
                /\ ret' # NoRet /\ ret'.value.isError
          /\ call.name = "scrape_wechat_article" /\ call.apiKey /\ ret' # NoRet =>
                /\ Done
                /\ outcome.kind = "thrown" => ret'.value.isError
                /\ outcome.kind = "returned" /\ outcome.value.kind = "null" =>
                      ret'.value.isError
                /\ ret'.value.isError =>
                      \/ outcome.kind = "thrown"
                      \/ outcome.kind = "returned" /\ outcome.value.kind = "null"
                /\ ~ret'.value.isError =>
                      LET json == ret'.value.text[2]
                          r == ret'.value.result
                          kept == {k \in {"markdown", "html"} :
                                      k \in DOMAIN r.data /\ r.data[k] # <<>>}
                      IN  /\ outcome.kind = "returned"
                          /\ outcome.value.kind = "record"
                          /\ DOMAIN json = {"status", "url", "timestamp", "metadata"}
                                               \cup kept
                          /\ json["status"] = <<"success">>
                          /\ json["url"] = r.url
                          /\ json["timestamp"] = r.timestamp
                          /\ json["metadata"] = r.metadata
                          /\ \A k \in kept : json[k] = r.data[k]
      ]_vars

\* A record whose data holds an empty markdown and a non-empty html has been
\* answered with a success envelope that carries the html alone.
C40_Witness ==
    /\ call.fn = "call_tool" /\ call.name = "scrape_wechat_article"
    /\ Done
    /\ outcome.kind = "returned" /\ outcome.value.kind = "record"
    /\ ret # NoRet
    /\ ~ret.value.isError
    /\ ret.value.result.data = [k \in {"html", "markdown"} |->
                                   IF k = "html" THEN <<"x">> ELSE <<>>]
    /\ DOMAIN ret.value.text[2] = {"status", "url", "timestamp", "metadata", "html"}

\* C26: the session of the first attempt is opened through the proxy country
\* the request names, or CN when it names none.
C26_FirstSessionUsesProxyCountry ==
    call.fn = "call_tool" /\ sessions # <<>> =>
        sessions[1].proxy = IF call.proxyCountry = "" THEN "CN" ELSE call.proxyCountry

\* Sessions the call has opened and not yet invoked close on.
Unclosed == {k \in 1..Len(sessions) : sessions[k].opened /\ sessions[k].closeCalls = 0}

\* C27: proxy attempts of one call never overlap: at most one session opened
\* by the call is un-closed at any time, and when a connect is about to be
\* issued every session opened before has had its close call completed or
\* failed.
C27_AttemptsNeverOverlap ==
    /\ Cardinality(Unclosed) <= 1
    /\ pc = "connect" => Unclosed = {}

\* The second candidate's session is open after the first one's, which was
\* opened too, was closed in the catch block.
C27_Witness ==
    /\ ListPath
    /\ Len(sessions) = 2
    /\ sessions[1].opened /\ sessions[1].closeCalls = 1
    /\ Unclosed = {2}
    /\ pc = "goto"

\* C28: after a failed attempt the 3-second backoff occurs if and only if
\* another candidate remains: when a connect is about to be issued there have
\* been as many backoffs as earlier attempts, and from an attempt's connect
\* on, through its failure and the failure of the call, there is one backoff
\* fewer than attempts, so none follows the last candidate.
C28_BackoffIffMoreCandidates ==
    ListPath =>
        /\ sessions = <<>> => backoffs = 0
        /\ pc = "connect" => backoffs = Len(sessions)
        /\ pc = "loop" /\ proxyIndex < N => backoffs = Len(sessions)
        /\ pc = "loop" /\ proxyIndex >= N /\ N > 0 => backoffs = Len(sessions) - 1
        /\ sessions # <<>> /\ pc \notin {"loop", "connect"} =>
              backoffs = Len(sessions) - 1

\* All three default candidates failed: two backoffs, none after the third.
C28_Witness ==
    /\ ListPath
    /\ Done
    /\ outcome.kind = "thrown"
    /\ N = 3
    /\ Len(sessions) = 3
    /\ backoffs = 2

(***************************************************************************)
(* Session identifiers (src/scraper.js 221-252, 265-267; src/mcp-server.js *)
(* 161-190).  Two calls are served by one process.  Each is either a tool  *)
(* call, which hands scrapeArticle the sessionName of its arguments or     *)
(* `wechat_${Date.now()}` and no proxyRetries, or a direct scrapeArticle   *)
(* call with its own options.  The clock is Date.now(); time passes        *)
(* between arrivals or not at all.  Each call records the identifiers of   *)
(* the sessions it asks for in `opened`.  Names are token sequences.       *)
(***************************************************************************)
MaxClock == 1
MaxNameList == 2

\* A variant that leaves the index out of the identifier.
currentSessionName_NoIndex(sessionName, currentProxy, index) ==
    sessionName \o <<"_">> \o currentProxy

\* `${sessionName}_${currentProxy}_${proxyIndex}`
currentSessionName(sessionName, currentProxy, index) ==
    sessionName \o <<"_">> \o currentProxy \o <<"_">> \o Decimal(index)

InitSessions ==
    /\ call = [fn |-> "server", clock |-> 0, overlap |-> FALSE,
               calls |-> [c \in {1, 2} |->
                            [pc |-> "idle", tool |-> FALSE, given |-> FALSE,
                             sessionName |-> <<>>, proxyRetries |-> <<>>,
                             proxyIndex |-> 0, opened |-> <<>>]]]
    /\ ret = NoRet
    /\ ScrapeIdle

\* A call arrives: the handler and scrapeArticle settle its options.  The
\* name <<>> is a call that supplies no sessionName; a proxy code is a
\* sequence of tokens, "CN_1" the three tokens CN, _ and 1.
Arrive(c) ==
    /\ call.fn = "server"
    /\ call.calls[c].pc = "idle"
    /\ \E now \in call.clock..MaxClock, tool \in BOOLEAN,
          name \in {<<>>, <<"s">>, <<"s", "_", "CN">>},
          list \in UNION {[1..n -> {<<"CN">>, <<"CN", "_", "1">>}] : n \in 1..MaxNameList}
                     \cup {[k \in 1..3 |-> <<DefaultProxyRetries[k]>>]} :
        /\ tool => list = [k \in 1..3 |-> <<DefaultProxyRetries[k]>>]
        /\ call' = [call EXCEPT
              !.clock = now,
              !.overlap = @ \/ call.calls[3 - c].pc = "loop",
              !.calls[c] =
                  [pc |-> "loop", tool |-> tool, given |-> name # <<>>,
                   sessionName |-> IF name # <<>> THEN name
                                   ELSE <<"wechat", "_">> \o Decimal(now),
                   proxyRetries |-> list, proxyIndex |-> 0, opened |-> <<>>]]
    /\ UNCHANGED <<ret, ScrapeVars>>

\* One turn of the proxy loop of a call: the session of the next candidate is
\* asked for under its identifier, and the attempt ends the call or fails.
ProxyLoop(c) ==
    /\ call.fn = "server"
    /\ call.calls[c].pc = "loop"
    /\ IF call.calls[c].proxyIndex < Len(call.calls[c].proxyRetries)
       THEN \E ok \in BOOLEAN :
              call' = [call EXCEPT
                  !.calls[c].opened =
                      Append(@, currentSessionName(
                                    call.calls[c].sessionName,
                                    call.calls[c].proxyRetries[call.calls[c].proxyIndex + 1],
                                    call.calls[c].proxyIndex)),
                  !.calls[c].pc = IF ok THEN "done" ELSE "loop",
                  !.calls[c].proxyIndex = IF ok THEN @ ELSE @ + 1]
       ELSE call' = [call EXCEPT !.calls[c].pc = "done"]
    /\ UNCHANGED <<ret, ScrapeVars>>

SpecSessions ==
    InitSessions /\ [][\E c \in {1, 2} : Arrive(c) \/ ProxyLoop(c)]_vars

\* C29: within one scrapeArticle call the session identifiers of any two
\* attempts are distinct, whatever the base name and the proxyRetries list.
C29_SessionNamesDistinctWithinCall ==
    call.fn = "server" =>
        \A c \in {1, 2} :
            \A j, k \in 1..Len(call.calls[c].opened) :
                j # k => call.calls[c].opened[j] # call.calls[c].opened[k]

\* Two attempts on the same code, one that holds an underscore and a digit.
C29_Witness ==
    /\ call.fn = "server"
    /\ \E c \in {1, 2} :
        /\ call.calls[c].proxyRetries = <<<<"CN", "_", "1">>, <<"CN", "_", "1">>>>
        /\ call.calls[c].sessionName = <<"s", "_", "CN">>
        /\ Len(call.calls[c].opened) = 2

\* C30: two tool calls that are in flight at the same time and supplied no
\* sessionName never ask for sessions under the same identifier.
C30_ConcurrentCallsDistinctNames ==
    /\ call.fn = "server"
    /\ call.overlap
    /\ call.calls[1].tool /\ ~call.calls[1].given
    /\ call.calls[2].tool /\ ~call.calls[2].given
    => \A j \in 1..Len(call.calls[1].opened), k \in 1..Len(call.calls[2].opened) :
           call.calls[1].opened[j] # call.calls[2].opened[k]

\* The waits and page calls of an attempt from the end of navigation to the
\* capture of the markup: the settle wait, five scrolls each with its pause,
\* the scroll to the top with its pause, and the capture.
CaptureTrail ==
    <<Did("wait", 3000),
      Did("scrollTo", 1000), Did("wait", 1000),
      Did("scrollTo", 2000), Did("wait", 1000),
      Did("scrollTo", 3000), Did("wait", 1000),
      Did("scrollTo", 4000), Did("wait", 1000),
      Did("scrollTo", 5000), Did("wait", 1000),
      Did("scrollTo", 0), Did("wait", 1000),
      Did("content", 0)>>

IsPrefix(a, b) == Len(a) <= Len(b) /\ a = SubSeq(b, 1, Len(a))

\* C31: in every attempt the markup is captured only after navigation
\* succeeded, the settle wait elapsed, the five scrolls to 1000, 2000, 3000,
\* 4000 and 5000 were made in order, each followed by its pause, and the
\* scroll to 0 and its pause completed; it is captured once, and extraction
\* runs once, after it and on the captured markup.
C31_CaptureAfterScrollSequence ==
    /\ IsPrefix(trail, CaptureTrail \o <<Did("process", 0)>>)
    /\ trail # <<>> => gotoOk
    /\ htmlContent.captured => IsPrefix(CaptureTrail, trail)
    /\ result # NoResult =>
          /\ htmlContent.captured
          /\ trail = CaptureTrail \o <<Did("process", 0)>>
          /\ result = processHtmlContent(htmlContent.doc)

\* The second attempt has captured the markup and run the extraction.
C31_Witness ==
    /\ ListPath
    /\ proxyIndex = 1
    /\ pc = "close"
    /\ htmlContent.captured
    /\ result.kind = "record"
    /\ trail = CaptureTrail \o <<Did("process", 0)>>

\* C34: apart from the last-error accumulator no state written during one
\* attempt is read by a later one.  An attempt starts with no session, no
\* markup, no result and no page call made, whatever went before; it reads
\* the navigation counter and the scroll index only after setting them; and
\* every timer entry an endStep reads was written by the same attempt, or,
\* for the total, by scrapeArticle before the first attempt.
C34_NoStateCrossesAttempts ==
    /\ pc = "connect" =>
          /\ browser = "null"
          /\ htmlContent = NoPage /\ result = NoResult
          /\ trail = <<>> /\ timerReads = {}
          /\ gotoCalls = 0 /\ navPauses = 0 /\ ~gotoOk
    /\ pc = "goto" /\ gotoCalls = 0 => retries = NavRetries
    /\ pc = "scroll" /\ trail = <<Did("wait", 3000)>> => i = 0
    /\ \A r \in timerReads :
          \/ r.at = r.by
          \/ r.name = "total" /\ r.at = -1

\* The second attempt has read its own navigate timer while the scroll
\* timer of the first, which failed while scrolling, is still in the table.
C34_Witness ==
    /\ ListPath
    /\ proxyIndex = 1
    /\ lastError = [at |-> 0, step |-> "scroll"]
    /\ [name |-> "scroll", at |-> 0] \in stepTimers
    /\ [name |-> "navigate", at |-> 1, by |-> 1] \in timerReads
    /\ pc = "settle"

\* C35: when proxyURL is not set and proxyRetries is the empty list,
\* scrapeArticle opens no session and makes no navigation or other page
\* call, and it ends by throwing the generic all-attempts-failed error: it
\* does not return.
C35_EmptyProxyListFails ==
    proxyURL = "" /\ fn = "scrapeArticle" /\ N = 0 =>
        /\ sessions = <<>>
        /\ gotoTotal = 0
        /\ trail = <<>>
        /\ outcome.kind # "returned"
        /\ Done => outcome.kind = "thrown" /\ outcome.error = GenericError

C35_Witness ==
    /\ proxyURL = "" /\ fn = "scrapeArticle" /\ N = 0
    /\ Done
    /\ outcome.kind = "thrown"
    /\ outcome.error = GenericError
    /\ sessions = <<>>

\* C36: when the connect of an attempt fails, close is never invoked for
\* that attempt, the connect error is the last error, and on the proxy-list
\* path the next candidate, if there is one, is tried after the backoff (so
\* a call that fails has tried every candidate), while on the custom-proxy
\* path the connect error is thrown to the caller.
C36_ConnectFailure ==
    /\ \A k \in 1..Len(sessions) : ~sessions[k].opened => sessions[k].closeCalls = 0
    /\ ListPath /\ sessions # <<>> /\ ~LastSession.opened =>
          /\ pc \in {"catch", "backoff", "backoffWait", "loop", "connect", "fail", "done"}
          /\ pc = "catch" => error = [at |-> LastSession.index, step |-> "connect"]
          /\ pc # "catch" => lastError = [at |-> LastSession.index, step |-> "connect"]
          /\ pc = "connect" =>
                /\ proxyIndex = LastSession.index + 1
                /\ backoffs = Len(sessions)
          /\ Done => outcome.kind = "thrown" /\ outcome.error = lastError
                        /\ Len(sessions) = N
    /\ CustomPath /\ sessions # <<>> /\ ~LastSession.opened =>
          /\ Len(sessions) = 1
          /\ pc \in {"catch", "rethrow", "done"}
          /\ Done => outcome.kind = "thrown"
                        /\ outcome.error = [at |-> 0, step |-> "connect"]

\* The connect of the first candidate failed and the second candidate's
\* session is about to be asked for, one backoff later.
C36_Witness ==
    /\ ListPath
    /\ Len(sessions) = 1
    /\ ~sessions[1].opened /\ sessions[1].closeCalls = 0
    /\ lastError = [at |-> 0, step |-> "connect"]
    /\ pc = "connect"
    /\ backoffs = 1

\* The close calls session k has received.
CloseCallsOf(ss, k) == IF k <= Len(ss) THEN ss[k].closeCalls ELSE 0

\* C37: close is invoked at most twice on any one session; the second
\* invocation is the catch block's, and it happens only after the first one,
\* made on the success path after extraction, has failed; when the attempt
\* failed before the success-path close, the catch block's close is the only
\* one the session receives.
C37_CloseAtMostTwice ==
    [][\A k \in 1..Len(sessions') :
         /\ CloseCallsOf(sessions', k) <= 2
         /\ CloseCallsOf(sessions', k) \in
                {CloseCallsOf(sessions, k), CloseCallsOf(sessions, k) + 1}
         /\ CloseCallsOf(sessions', k) # CloseCallsOf(sessions, k) =>
                /\ k = Len(sessions) /\ sessions[k].opened
                /\ pc \in {"close", "catchClose"}
                /\ pc = "close" => CloseCallsOf(sessions', k) = 1
                /\ pc = "catchClose" =>
                      CloseCallsOf(sessions', k) = IF error.step = "close" THEN 2 ELSE 1
         /\ k = Len(sessions') /\ sessions'[k].opened
               /\ pc' \in {"backoff", "rethrow", "done"} =>
                CloseCallsOf(sessions', k) =
                    IF error' = [at |-> sessions'[k].index, step |-> "close"] THEN 2 ELSE 1
      ]_vars

\* The success-path close of a session failed and the catch block has asked
\* for the close a second time.
C37_Witness ==
    /\ sessions # <<>>
    /\ LastSession.closeCalls = 2
    /\ error = [at |-> LastSession.index, step |-> "close"]
    /\ pc \in {"backoff", "rethrow"}

(***************************************************************************)
(* Every step of scrapeArticle is the completion of an awaited remote      *)
(* operation or of a timed wait, or runs synchronously after one.  Under   *)
(* the assumption that each operation eventually returns or fails and each *)
(* wait eventually elapses, a step that can be taken is eventually taken.  *)
(***************************************************************************)
SpecLive == Spec /\ WF_vars(Next)

\* C32: every scrapeArticle call with a finite proxyRetries list eventually
\* terminates, by returning a record, returning null, or throwing.
C32_EventuallyTerminates ==
    <>(/\ Done
       /\ \/ outcome.kind = "returned" /\ outcome.value.kind \in {"record", "null"}
          \/ outcome.kind = "thrown")

\* The longest call: three candidates, each failing at its last step.
C32_Witness ==
    /\ Done
    /\ N = 3
    /\ outcome.kind = "thrown"
    /\ outcome.error = [at |-> 2, step |-> "close"]
    /\ gotoTotal = 9

(***************************************************************************)
(* Bearer-token check of POST /mcp (src/mcp-server.js 24-26, 45-97, 278).  *)
(* A string is held as the sequence of the parts its separator divides it  *)
(* into, which is what split gives: the value of MCP_API_KEYS as its       *)
(* comma-separated segments, the Authorization header as its space-        *)
(* separated parts (an empty string is the one empty part).  No part at   *)
(* all, <<>>, is a variable or header that is absent.  The words Bearer    *)
(* and Basic are single tokens.  The answer is "401", "403" or "next", the     *)
(* hand-over to the MCP request handler.                                   *)
(***************************************************************************)
MaxSegments == 2
MaxParts == 3

\* process.env.MCP_API_KEYS ? ....split(',').map(trim).filter(key => key) : []
ApiKeys(env) ==
    IF env = <<>> \/ env = <<<<>>>>
    THEN <<>>
    ELSE SelectSeq([k \in 1..Len(env) |-> Trim(env[k])], LAMBDA key : key # <<>>)

\* A variant that accepts any token.
authenticateRequest_AnyToken(keys, header) ==
    IF Len(keys) = 0 THEN "next"
    ELSE IF header = <<>> \/ header = <<<<>>>> THEN "401"
    ELSE IF Len(header) # 2 \/ header[1] # <<"Bearer">> THEN "401"
    ELSE "next"

authenticateRequest(keys, header) ==
    IF Len(keys) = 0 THEN "next"
    ELSE IF header = <<>> \/ header = <<<<>>>> THEN "401"
    ELSE IF Len(header) # 2 \/ header[1] # <<"Bearer">> THEN "401"
    ELSE IF ~Includes(keys, header[2]) THEN "403"
    ELSE "next"

InitAuth ==
    /\ call \in
          [fn : {"POST /mcp"},
           env : {<<>>} \cup
                 UNION {[1..n -> {<<>>, <<" ">>, <<"a">>, <<" ", "a", " ">>, <<"b">>,
                                  <<"a", "b">>}] : n \in 1..MaxSegments},
           authorization : {<<>>} \cup
                 UNION {[1..n -> {<<>>, <<"Bearer">>, <<"Basic">>, <<"a">>, <<"b">>,
                                  <<"a", "b">>}] : n \in 1..MaxParts}]
    /\ ret = NoRet
    /\ ScrapeIdle

PostMcp ==
    /\ call.fn = "POST /mcp"
    /\ ret = NoRet
    /\ ret' = Returned(authenticateRequest(ApiKeys(call.env), call.authorization))
    /\ UNCHANGED <<call, ScrapeVars>>

SpecAuth == InitAuth /\ [][PostMcp]_vars

\* The keys a value of MCP_API_KEYS lists: its segments without the blanks
\* around them, the blank segments left out.
ListedKeys == {Trim(call.env[k]) : k \in 1..Len(call.env)} \ {<<>>}

\* The answers of the check when the keys of the set K are in force.
Guarded(K) ==
    /\ ret.value = "next" <=>
          /\ call.authorization # <<>>
          /\ Len(call.authorization) = 2
          /\ call.authorization[1] = <<"Bearer">>
          /\ call.authorization[2] \in K
    /\ ret.value = "403" <=>
          /\ call.authorization # <<>>
          /\ Len(call.authorization) = 2
          /\ call.authorization[1] = <<"Bearer">>
          /\ call.authorization[2] \notin K
    /\ ret.value \in {"next", "401", "403"}

MaxMetaElems == 2

TextSelectors ==
    {"#activity-name", ".rich_media_title", "title", "#js_name",
     ".rich_media_meta_nickname"}

DateTextSelectors == {"#publish_time", ".rich_media_meta_text"}

MetaSelectors ==
    {"meta[property=og:title]", "meta[name=author]", "meta[property=og:article:author]"}

MetaElements ==
    [sel : TextSelectors, value : {Str(<<" ">>), Str(<<"a">>), Str(<<" ", "b", " ">>)}]
      \cup [sel : DateTextSelectors,
            value : {Str(<<" ">>), Str(<<"a", "b", "c">>),
                     Str(<<"2", "0", "2", "5", "-", "1", "0", "-", "2", "9", " ", "1", "6", ":", "2", "1">>)}]
      \cup [sel : MetaSelectors, value : {Undefined, Str(<<>>), Str(<<" ">>), Str(<<"c">>)}]
      \cup [sel : {"meta[property=article:published_time]"},
            value : {Undefined, Str(<<>>), Str(<<"2", "0", "2", "5", "-", "1", "0", "-", "2", "9", "T", "1", "6", ":", "2", "1", ":", "0", "0", "+", "0", "8", "0", "0">>)}]

MetaPages == UNION {[1..n -> MetaElements] : n \in 0..MaxMetaElems}

\* $(selector).text(): the texts of all matches, joined.
RECURSIVE JoinedText(_, _)
JoinedText(doc, sel) ==
    IF doc = <<>>
    THEN <<>>
    ELSE (IF Head(doc).sel = sel THEN Head(doc).value.chars ELSE <<>>)
            \o JoinedText(Tail(doc), sel)

\* $(selector).text().trim()
TextOf(doc, sel) == Str(Trim(JoinedText(doc, sel)))

\* $(selector).attr('content'): the attribute of the first match.
ContentOf(doc, sel) ==
    LET hits == {k \in 1..Len(doc) : doc[k].sel = sel}
    IN  IF hits = {} THEN Undefined ELSE doc[Min(hits)].value

\* A variant that asks the og:title meta before the .rich_media_title text.
TitleOf_MetaFirst(doc) ==
    Or(Or(Or(Or(TextOf(doc, "#activity-name"),
                ContentOf(doc, "meta[property=og:title]")),
             TextOf(doc, ".rich_media_title")),
          TextOf(doc, "title")),
       Str(<<>>))

TitleOf(doc) ==
    Or(Or(Or(Or(TextOf(doc, "#activity-name"),
                TextOf(doc, ".rich_media_title")),
             ContentOf(doc, "meta[property=og:title]")),
          TextOf(doc, "title")),
       Str(<<>>))

\* A variant without the final || ''.
AuthorOf_NoDefault(doc) ==
    Or(Or(Or(TextOf(doc, "#js_name"),
             TextOf(doc, ".rich_media_meta_nickname")),
          ContentOf(doc, "meta[name=author]")),
       ContentOf(doc, "meta[property=og:article:author]"))

AuthorOf(doc) ==
    Or(Or(Or(Or(TextOf(doc, "#js_name"),
                TextOf(doc, ".rich_media_meta_nickname")),
             ContentOf(doc, "meta[name=author]")),
          ContentOf(doc, "meta[property=og:article:author]")),
       Str(<<>>))

PublishDateTextOf(doc) ==
    Or(Or(Or(TextOf(doc, "#publish_time"),
             TextOf(doc, ".rich_media_meta_text")),
          ContentOf(doc, "meta[property=article:published_time]")),
       Str(<<>>))

\* A variant that goes on to the next candidate when one does not parse.
extractMetadata_FirstParseable(doc, clockYear) ==
    LET publishDateText == PublishDateTextOf(doc)
        parsed == Or(Or(Or(IF Truthy(TextOf(doc, "#publish_time"))
                           THEN parsePublishDate(TextOf(doc, "#publish_time"), clockYear)
                           ELSE Str(<<>>),
                           IF Truthy(TextOf(doc, ".rich_media_meta_text"))
                           THEN parsePublishDate(TextOf(doc, ".rich_media_meta_text"), clockYear)
                           ELSE Str(<<>>)),
                        IF Truthy(ContentOf(doc, "meta[property=article:published_time]"))
                        THEN parsePublishDate(
                                 ContentOf(doc, "meta[property=article:published_time]"),
                                 clockYear)
                        ELSE Str(<<>>)),
                     Str(<<>>))
    IN  [title |-> TitleOf(doc),
         author |-> AuthorOf(doc),
         publishDateText |-> publishDateText,
         published_date |-> parsed,
         saved_using |-> "wechat-scraper-mcp"]

\* The metadata object; publishDateText is the raw text, which the function
\* writes to the log.
extractMetadata(doc, clockYear) ==
    LET publishDateText == PublishDateTextOf(doc)
    IN  [title |-> TitleOf(doc),
         author |-> AuthorOf(doc),
         publishDateText |-> publishDateText,
         published_date |-> IF Truthy(publishDateText)
                            THEN parsePublishDate(publishDateText, clockYear)
                            ELSE Str(<<>>),
         saved_using |-> "wechat-scraper-mcp"]

InitMetadata ==
    /\ call \in [fn : {"extractMetadata"}, doc : MetaPages, clockYear : {2026}]
    /\ ret = NoRet
    /\ ScrapeIdle

ApplyExtractMetadata ==
    /\ call.fn = "extractMetadata"
    /\ ret = NoRet
    /\ ret' = Returned(extractMetadata(call.doc, call.clockYear))
    /\ UNCHANGED <<call, ScrapeVars>>

SpecMetadata == InitMetadata /\ [][ApplyExtractMetadata]_vars

\* The first candidate of a chain that is a non-empty string, the empty
\* string when there is none.
FirstNonEmpty(candidates) ==
    LET full == {k \in 1..Len(candidates) :
                    candidates[k].type = "string" /\ candidates[k].chars # <<>>}
    IN  IF full = {} THEN Str(<<>>)
        ELSE candidates[CHOOSE k \in full : \A j \in full : k <= j]

\* C13: title, author and raw publish-date text are each the first non-empty
\* candidate of their own chain, in the documented order; a later candidate
\* is taken only when every earlier one of the same chain is empty, and each
\* field is settled by the candidates of its own chain alone.
C13_MetadataChains ==
    call.fn = "extractMetadata" /\ ret.status = "returned" =>
        LET doc == call.doc
        IN  /\ ret.value.title =
                  FirstNonEmpty(<<TextOf(doc, "#activity-name"),
                                  TextOf(doc, ".rich_media_title"),
                                  ContentOf(doc, "meta[property=og:title]"),
                                  TextOf(doc, "title")>>)
            /\ ret.value.author =
                  FirstNonEmpty(<<TextOf(doc, "#js_name"),
                                  TextOf(doc, ".rich_media_meta_nickname"),
                                  ContentOf(doc, "meta[name=author]"),
                                  ContentOf(doc, "meta[property=og:article:author]")>>)
            /\ ret.value.publishDateText =
                  FirstNonEmpty(<<TextOf(doc, "#publish_time"),
                                  TextOf(doc, ".rich_media_meta_text"),
                                  ContentOf(doc, "meta[property=article:published_time]")>>)

C13_Witness ==
    /\ call.fn = "extractMetadata"
    /\ ret.status = "returned"
    /\ call.doc = <<[sel |-> "meta[property=og:title]", value |-> Str(<<"c">>)],
                    [sel |-> ".rich_media_title", value |-> Str(<<" ", "b", " ">>)]>>
    /\ ret.value.title = Str(<<"b">>)
    /\ ret.value.author = Str(<<>>)

\* The candidates of the publish-date chain, in the order of the chain.
DateCandidates(doc) ==
    <<TextOf(doc, "#publish_time"),
      TextOf(doc, ".rich_media_meta_text"),
      ContentOf(doc, "meta[property=article:published_time]")>>

\* The places of the chain that hold a non-empty string.
NonEmptyPlaces(candidates) ==
    {k \in 1..Len(candidates) :
        candidates[k].type = "string" /\ candidates[k].chars # <<>>}

\* C38: published_date is settled by the first non-empty candidate of the
\* publish-date chain alone: it is what parsePublishDate makes of that text,
\* so the empty string when that text cannot be normalised, whether or not a
\* later candidate holds a date that can be; with no non-empty candidate it
\* is the empty string.
C38_DateChainDecidedOnRawText ==
    call.fn = "extractMetadata" /\ ret.status = "returned" =>
        LET candidates == DateCandidates(call.doc)
            places == NonEmptyPlaces(candidates)
        IN  IF places = {}
            THEN ret.value.published_date = Str(<<>>)
            ELSE /\ ret.value.publishDateText = candidates[Min(places)]
                 /\ ret.value.published_date =
                        parsePublishDate(candidates[Min(places)], call.clockYear)

\* The text of .rich_media_meta_text is no date, the article:published_time
\* meta holds one, and published_date is empty.
C38_Witness ==
    /\ call.fn = "extractMetadata"
    /\ ret.status = "returned"
    /\ call.doc = <<[sel |-> ".rich_media_meta_text", value |-> Str(<<"a", "b", "c">>)],
                    [sel |-> "meta[property=article:published_time]",
                     value |-> Str(<<"2", "0", "2", "5", "-", "1", "0", "-", "2", "9", "T", "1", "6", ":", "2", "1", ":", "0", "0", "+", "0", "8", "0", "0">>)]>>
    /\ parsePublishDate(call.doc[2].value, call.clockYear) # Str(<<>>)
    /\ ret.value.published_date = Str(<<>>)

\* C14: in every metadata object title, author and published_date are
\* strings, the empty string when nothing was found, and published_date is
\* the empty string or a complete ISO-8601 UTC instant, whatever the markup
\* and the raw date text.
C14_MetadataFieldsAreStrings ==
    call.fn = "extractMetadata" /\ ret.status = "returned" =>
        /\ ret.value.title.type = "string"
        /\ ret.value.author.type = "string"
        /\ ret.value.published_date.type = "string"
        /\ \/ ret.value.published_date.chars = <<>>
           \/ IsIso(ret.value.published_date.chars)
        /\ ret.value.publishDateText.chars = <<>> => ret.value.published_date.chars = <<>>

C14_Witness ==
    /\ call.fn = "extractMetadata"
    /\ ret.status = "returned"
    /\ call.doc = <<[sel |-> "meta[property=og:article:author]", value |-> Undefined],
                    [sel |-> ".rich_media_meta_text", value |-> Str(<<"a", "b", "c">>)]>>
    /\ ret.value.author = Str(<<>>)
    /\ ret.value.publishDateText = Str(<<"a", "b", "c">>)
    /\ ret.value.published_date = Str(<<>>)

====
